---------------------------- MODULE Spec2Model ----------------------------
(***************************************************************************)
(* Model of the .po catalog tools of odoo-i18n (scripts/i18n_converter.py  *)
(* and scripts/i18n_validator.py): the parser, the serializer, the merge   *)
(* and clean actions.                                                      *)
(*                                                                         *)
(* A Python str is a sequence of one-character strings; a list of str is a *)
(* sequence of such sequences.  File content is one flat sequence of       *)
(* characters, line terminators included.                                  *)
(***************************************************************************)
EXTENDS Naturals, Sequences, FiniteSets, TLC

VARIABLES
    pc,              \* which handler has run
    str_in,          \* the string handed to PoSerializer.escape
    str_escaped,     \* escape's result
    str_out,         \* _parse_string's result on the quoted literal
    base_content,    \* text of the base .po file
    new_content,     \* text of the new .po file
    base_entries,    \* action_merge: the parsed base entries (objects, mutated in place)
    new_entries,     \* action_merge: the parsed new entries
    merged,          \* action_merge: the merged entry list
    merged_ref,      \* for each merged entry, the object it is
    added,           \* action_merge counters
    preserved,
    marked_obsolete,
    output_content,  \* text action_merge wrote to output_path
    entries,         \* action_clean: the entries parsed from its input
    clean_entries,   \* action_clean: the entries it keeps
    removed,         \* action_clean: its return value
    clean_content,   \* text action_clean wrote
    po_content,      \* text handed to PoParser
    parser,          \* which PoParser read it: "converter" or "validator"
    parsed_entries,  \* the entry list parse() returned
    parse_errors,    \* the parser's error list after parse()
    lang,            \* PoValidator: the language hint
    strict,          \* PoValidator: the strict setting
    issues,          \* PoValidator.validate_all's result
    raw_bytes,       \* the bytes of the input file of an entry point
    entry_point,     \* the entry point that read it
    outcome,         \* how the entry point ended
    file_written,    \* the output file: <<>> when none was written, else <<its content>>
    po_file,         \* the extractor's <lang>.po: <<>> when absent, else <<its content>>
    bak_file,        \* the extractor's <lang>.po.bak, likewise
    original_po,     \* the content <lang>.po had before the first extractor run
    runs,            \* the number of extractor runs so far
    module_strings,  \* what ModuleScanner.scan() finds in the module
    pot_file         \* the extractor's <module>.pot: <<>> when absent, else <<its content>>

vars == <<pc, str_in, str_escaped, str_out, base_content, new_content,
          base_entries, new_entries, merged, merged_ref, added, preserved,
          marked_obsolete, output_content, entries, clean_entries, removed,
          clean_content, po_content, parser, parsed_entries, parse_errors, lang,
          strict, issues, raw_bytes, entry_point, outcome, file_written, po_file,
          bak_file, original_po, runs, module_strings, pot_file>>

---------------------------------------------------------------------------
(* Characters *)

BS == "\\"
QT == "\""
NL == "\n"
TAB == "\t"
CR == "\r"
SP == " "

(* Bounds of the model *)
MaxStrLen == 3
MaxBase == 2
MaxNew == 3

---------------------------------------------------------------------------
(* Python str and list primitives *)

Min(S) == CHOOSE x \in S : \A y \in S : x <= y

Max(S) == CHOOSE x \in S : \A y \in S : y <= x

StartsWith(s, p) == Len(s) >= Len(p) /\ SubSeq(s, 1, Len(p)) = p

EndsWith(s, p) == Len(s) >= Len(p) /\ SubSeq(s, Len(s) - Len(p) + 1, Len(s)) = p

\* s[n:]
From(s, n) == SubSeq(s, n + 1, Len(s))

IsSpace(c) == c \in {SP, NL, TAB, CR}

\* str.strip()
Strip(s) ==
    IF \A p \in 1..Len(s) : IsSpace(s[p]) THEN <<>>
    ELSE LET lead == CHOOSE k \in 0..(Len(s) - 1) :
                         /\ ~IsSpace(s[k + 1])
                         /\ \A j \in 1..k : IsSpace(s[j])
             trail == CHOOSE k \in 0..(Len(s) - 1) :
                          /\ ~IsSpace(s[Len(s) - k])
                          /\ \A j \in 0..(k - 1) : IsSpace(s[Len(s) - j])
         IN SubSeq(s, lead + 1, Len(s) - trail)

\* the places at or after `start` where `sub` occurs in s
Occurrences(s, sub, start) ==
    {p \in start..(Len(s) - Len(sub) + 1) : SubSeq(s, p, p + Len(sub) - 1) = sub}

\* str.replace(old, new): every non-overlapping occurrence, left to right
RECURSIVE ReplaceFrom(_, _, _, _)
ReplaceFrom(s, old, new, start) ==
    LET occ == Occurrences(s, old, start) IN
    IF occ = {} THEN SubSeq(s, start, Len(s))
    ELSE SubSeq(s, start, Min(occ) - 1) \o new
         \o ReplaceFrom(s, old, new, Min(occ) + Len(old))

Replace(s, old, new) == ReplaceFrom(s, old, new, 1)

\* sub in s
Contains(s, sub) == Occurrences(s, sub, 1) # {}

\* str.split(sep) for a non-empty sep: always at least one piece
RECURSIVE SplitFrom(_, _, _)
SplitFrom(s, sep, start) ==
    LET occ == Occurrences(s, sep, start) IN
    IF occ = {} THEN <<SubSeq(s, start, Len(s))>>
    ELSE <<SubSeq(s, start, Min(occ) - 1)>> \o SplitFrom(s, sep, Min(occ) + Len(sep))

Split(s, sep) == SplitFrom(s, sep, 1)

\* str.split(): pieces between runs of whitespace, no empty piece
RECURSIVE SplitWsFrom(_, _)
SplitWsFrom(s, start) ==
    LET solid == {p \in start..Len(s) : ~IsSpace(s[p])} IN
    IF solid = {} THEN <<>>
    ELSE LET first == Min(solid)
             spaces == {p \in first..Len(s) : IsSpace(s[p])}
             stop == IF spaces = {} THEN Len(s) + 1 ELSE Min(spaces)
         IN <<SubSeq(s, first, stop - 1)>> \o SplitWsFrom(s, stop)

SplitWs(s) == SplitWsFrom(s, 1)

\* str.splitlines(): lines end at \n, \r or \r\n; no empty last line
RECURSIVE SplitLinesFrom(_, _, _)
SplitLinesFrom(s, breaks, start) ==
    IF start > Len(s) THEN <<>>
    ELSE LET rest == {p \in breaks : p >= start} IN
         IF rest = {} THEN <<SubSeq(s, start, Len(s))>>
         ELSE LET p == Min(rest)
                  next == IF s[p] = CR /\ p < Len(s) /\ s[p + 1] = NL THEN p + 2 ELSE p + 1
              IN <<SubSeq(s, start, p - 1)>> \o SplitLinesFrom(s, rest, next)

SplitLines(s) == SplitLinesFrom(s, {p \in 1..Len(s) : s[p] \in {NL, CR}}, 1)

\* sep.join(parts)
RECURSIVE Join(_, _)
Join(parts, sep) ==
    IF parts = <<>> THEN <<>>
    ELSE IF Len(parts) = 1 THEN parts[1]
    ELSE parts[1] \o sep \o Join(Tail(parts), sep)

---------------------------------------------------------------------------
(* String literals: PoSerializer.escape and PoParser._parse_string *)

PoSerializer_escape(s) ==
    Replace(Replace(Replace(Replace(Replace(s,
        <<BS>>, <<BS, BS>>),
        <<QT>>, <<BS, QT>>),
        <<NL>>, <<BS, "n">>),
        <<CR>>, <<BS, "r">>),
        <<TAB>>, <<BS, "t">>)

\* The five sequential replacements both _parse_string functions apply
Unescape(inner) ==
    Replace(Replace(Replace(Replace(Replace(inner,
        <<BS, QT>>, <<QT>>),
        <<BS, "n">>, <<NL>>),
        <<BS, "t">>, <<TAB>>),
        <<BS, "r">>, <<CR>>),
        <<BS, BS>>, <<BS>>)

\* i18n_converter.py: a malformed literal yields ""
PoParser_parse_string(raw) ==
    LET r == Strip(raw) IN
    IF StartsWith(r, <<QT>>) /\ EndsWith(r, <<QT>>)
    THEN Unescape(SubSeq(r, 2, Len(r) - 1))
    ELSE <<>>

\* i18n_validator.py: a malformed literal raises ValueError
ValidatorPoParser_parse_string(raw) ==
    LET r == Strip(raw) IN
    IF ~StartsWith(r, <<QT>>) \/ ~EndsWith(r, <<QT>>)
    THEN [raised |-> TRUE, val |-> <<>>]
    ELSE [raised |-> FALSE, val |-> Unescape(SubSeq(r, 2, Len(r) - 1))]

---------------------------------------------------------------------------
(* Escape / unescape of one string *)

EscapeAlphabet == {BS, QT, NL, TAB, CR, "n", "t", "r", "a"}

RECURSIVE StringsUpTo(_, _)
StringsUpTo(alphabet, n) ==
    IF n = 0 THEN {<<>>}
    ELSE LET shorter == StringsUpTo(alphabet, n - 1) IN
         shorter \cup {Append(t, c) : t \in shorter, c \in alphabet}

EscapeInputs == StringsUpTo(EscapeAlphabet, MaxStrLen)

IdleMerge ==
    /\ base_content = <<>>
    /\ new_content = <<>>
    /\ base_entries = <<>>
    /\ new_entries = <<>>
    /\ merged = <<>>
    /\ merged_ref = <<>>
    /\ added = 0
    /\ preserved = 0
    /\ marked_obsolete = 0
    /\ output_content = <<>>
    /\ entries = <<>>
    /\ clean_entries = <<>>
    /\ removed = 0
    /\ clean_content = <<>>

MergeVars == <<base_content, new_content, base_entries, new_entries, merged,
               merged_ref, added, preserved, marked_obsolete, output_content,
               entries, clean_entries, removed, clean_content>>

IdleEscape ==
    /\ str_in = <<>>
    /\ str_escaped = <<>>
    /\ str_out = <<>>

EscapeVars == <<str_in, str_escaped, str_out>>

IdleValidate ==
    /\ po_content = <<>>
    /\ parser = "none"
    /\ parsed_entries = <<>>
    /\ parse_errors = <<>>
    /\ lang = <<>>
    /\ strict = FALSE
    /\ issues = <<>>

ValidateVars == <<po_content, parser, parsed_entries, parse_errors, lang, strict,
                  issues>>

IdleEncoding ==
    /\ raw_bytes = <<>>
    /\ entry_point = "none"
    /\ outcome = "none"
    /\ file_written = <<>>

EncodingVars == <<raw_bytes, entry_point, outcome, file_written>>

IdleExtract ==
    /\ po_file = <<>>
    /\ bak_file = <<>>
    /\ original_po = <<>>
    /\ runs = 0
    /\ module_strings = <<>>
    /\ pot_file = <<>>

ExtractVars == <<po_file, bak_file, original_po, runs, module_strings, pot_file>>

IdleFiles == IdleEncoding /\ IdleExtract

FileVars == <<EncodingVars, ExtractVars>>

InitEscape ==
    /\ pc = "string"
    /\ IdleFiles
    /\ str_in \in EscapeInputs
    /\ str_escaped = <<>>
    /\ str_out = <<>>
    /\ IdleMerge
    /\ IdleValidate

Escape ==
    /\ pc = "string"
    /\ str_escaped' = PoSerializer_escape(str_in)
    /\ pc' = "escaped"
    /\ UNCHANGED <<str_in, str_out, MergeVars, ValidateVars, FileVars>>

\* the converter's _parse_string on the quoted literal
ParseStringConverter ==
    /\ pc = "escaped"
    /\ str_out' = PoParser_parse_string(<<QT>> \o str_escaped \o <<QT>>)
    /\ pc' = "unescaped"
    /\ UNCHANGED <<str_in, str_escaped, MergeVars, ValidateVars, FileVars>>

\* the validator's _parse_string on the quoted literal
ParseStringValidator ==
    /\ pc = "escaped"
    /\ \E r \in {ValidatorPoParser_parse_string(<<QT>> \o str_escaped \o <<QT>>)} :
         /\ str_out' = r.val
         /\ pc' = IF r.raised THEN "raised" ELSE "unescaped"
    /\ UNCHANGED <<str_in, str_escaped, MergeVars, ValidateVars, FileVars>>

NextEscape == Escape \/ ParseStringConverter \/ ParseStringValidator

SpecEscape == InitEscape /\ [][NextEscape]_vars

---------------------------------------------------------------------------
(* PoEntry (i18n_converter.py) *)

PoEntry(lineno) ==
    [msgid |-> <<>>, msgstr |-> <<>>, comments |-> <<>>,
     extracted_comments |-> <<>>, locations |-> <<>>, flags |-> <<>>,
     is_fuzzy |-> FALSE, is_obsolete |-> FALSE, is_header |-> FALSE,
     line_start |-> lineno]

FUZZY == <<"f", "u", "z", "z", "y">>

\* the flag that turns the format-specifier check on (i18n_validator.py)
PYTHON_FORMAT == <<"p", "y", "t", "h", "o", "n", "-", "f", "o", "r", "m", "a", "t">>

NotFuzzy(f) == f # FUZZY

InSeq(x, seq) == \E i \in 1..Len(seq) : seq[i] = x

\* A mutant of clone_empty: the translation and the fuzzy mark are copied
clone_empty_keeps(e) ==
    [e EXCEPT !.line_start = 0]

clone_empty(e) ==
    [msgid |-> e.msgid, msgstr |-> <<>>, comments |-> e.comments,
     extracted_comments |-> e.extracted_comments, locations |-> e.locations,
     flags |-> SelectSeq(e.flags, NotFuzzy),
     is_fuzzy |-> FALSE, is_obsolete |-> e.is_obsolete,
     is_header |-> e.is_header, line_start |-> 0]

---------------------------------------------------------------------------
(* PoParser.parse (i18n_converter.py) *)

MSGID_ == <<"m", "s", "g", "i", "d", SP>>
MSGSTR_ == <<"m", "s", "g", "s", "t", "r", SP>>

\* The scan state: the list built so far, the open entry (<<>> is None),
\* the mode ("none" is None), and whether the scan raised
ParserStart == [entries |-> <<>>, current |-> <<>>, mode |-> "none", raised |-> FALSE]

flush(st) ==
    IF st.current = <<>> THEN st
    ELSE LET cur == st.current[1] IN
         [st EXCEPT
            !.entries = IF cur.is_header \/ cur.msgid # <<>> THEN Append(@, cur) ELSE @,
            !.current = <<>>,
            !.mode = "none"]

StripEach(parts) == [i \in 1..Len(parts) |-> Strip(parts[i])]

CommentLine(st, line, lineno) ==
    LET cur == IF st.current = <<>> THEN PoEntry(lineno) ELSE st.current[1]
        flags == StripEach(Split(From(line, 2), <<",">>))
        upd ==
            IF StartsWith(line, <<"#", ",">>)
            THEN [cur EXCEPT !.flags = flags,
                             !.is_fuzzy = IF InSeq(FUZZY, flags) THEN TRUE ELSE @]
            ELSE IF StartsWith(line, <<"#", ":">>)
            THEN [cur EXCEPT !.locations = @ \o SplitWs(Strip(From(line, 2)))]
            ELSE IF StartsWith(line, <<"#", ".">>)
            THEN [cur EXCEPT !.extracted_comments = Append(@, Strip(From(line, 2)))]
            ELSE IF StartsWith(line, <<"#", "~">>)
            THEN [cur EXCEPT !.is_obsolete = TRUE, !.comments = Append(@, line)]
            ELSE [cur EXCEPT !.comments = Append(@, line)]
    IN [st EXCEPT !.current = <<upd>>]

\* current.msgid = val, on the open entry or a new one
SetMsgid(st1, val, lineno) ==
    LET cur == IF st1.current = <<>> THEN PoEntry(lineno) ELSE st1.current[1] IN
    [st1 EXCEPT
        !.current = <<[cur EXCEPT !.msgid = val,
                                  !.is_header = IF val = <<>> THEN TRUE ELSE @]>>,
        !.mode = "msgid"]

MsgidLine(st, line, lineno) ==
    SetMsgid(IF st.current # <<>> /\ st.mode # "none" THEN flush(st) ELSE st,
             PoParser_parse_string(From(line, 6)), lineno)

\* current.msgstr = ... with current None raises AttributeError
MsgstrLine(st, line) ==
    IF st.current = <<>> THEN [st EXCEPT !.raised = TRUE]
    ELSE [st EXCEPT !.current[1].msgstr = PoParser_parse_string(From(line, 7)),
                    !.mode = "msgstr"]

\* current.msgid += chunk or current.msgstr += chunk
AppendChunk(st, chunk) ==
    LET cur == st.current[1] IN
    IF st.mode = "msgid"
    THEN [st EXCEPT !.current =
            <<[cur EXCEPT !.msgid = @ \o chunk,
                          !.is_header = IF cur.msgid \o chunk = <<>> THEN TRUE ELSE @]>>]
    ELSE [st EXCEPT !.current[1].msgstr = @ \o chunk]

ContinuationLine(st, line) == AppendChunk(st, PoParser_parse_string(line))

\* The loop body, for one stripped line
ParseStripped(st, line, lineno) ==
    IF st.raised THEN st
    ELSE IF line = <<>> THEN flush(st)
    ELSE IF StartsWith(line, <<"#">>) THEN CommentLine(st, line, lineno)
    ELSE IF StartsWith(line, MSGID_) THEN MsgidLine(st, line, lineno)
    ELSE IF StartsWith(line, MSGSTR_) THEN MsgstrLine(st, line)
    ELSE IF StartsWith(line, <<QT>>) /\ st.mode # "none" THEN ContinuationLine(st, line)
    ELSE st

ParseLine(st, raw_line, lineno) == ParseStripped(st, Strip(raw_line), lineno)

RECURSIVE ParseLines(_, _, _)
ParseLines(st, lines, i) ==
    IF i > Len(lines) THEN st
    ELSE ParseLines(ParseLine(st, lines[i], i), lines, i + 1)

\* PoParser(content).parse(): [entries, raised]
FinishParse(st) ==
    IF st.raised
    THEN [entries |-> st.entries, raised |-> TRUE]
    ELSE [entries |-> flush(st).entries, raised |-> FALSE]

PoParser_parse(content) ==
    FinishParse(ParseLines(ParserStart, SplitLines(content), 1))

---------------------------------------------------------------------------
(* PoEntry and PoParser.parse (i18n_validator.py) *)

ValidatorPoEntry(lineno) ==
    [msgid |-> <<>>, msgstr |-> <<>>, comments |-> <<>>, flags |-> <<>>,
     locations |-> <<>>, line_start |-> lineno, is_header |-> FALSE,
     is_fuzzy |-> FALSE, is_obsolete |-> FALSE]

\* The scan state of the validator's parser; parse_errors holds (lineno, message)
\* pairs, the message kept as its kind
ValidatorParserStart ==
    [entries |-> <<>>, current |-> <<>>, mode |-> "none", parse_errors |-> <<>>,
     raised |-> FALSE]

\* finalize the open entry, when it has a msgid or is the header
ValidatorFinalize(st) ==
    IF st.current # <<>> /\ (st.current[1].msgid # <<>> \/ st.current[1].is_header)
    THEN [st EXCEPT
            !.entries = Append(@, [st.current[1] EXCEPT
                                     !.is_header = IF st.current[1].msgid = <<>>
                                                   THEN TRUE ELSE @]),
            !.current = <<>>,
            !.mode = "none"]
    ELSE st

ValidatorCommentLine(st, line, lineno) ==
    LET cur == IF st.current = <<>> THEN ValidatorPoEntry(lineno) ELSE st.current[1]
        flags == StripEach(Split(Strip(From(line, 2)), <<",">>))
        upd ==
            IF StartsWith(line, <<"#", ",">>)
            THEN [cur EXCEPT !.flags = flags,
                             !.is_fuzzy = IF InSeq(FUZZY, flags) THEN TRUE ELSE @]
            ELSE IF StartsWith(line, <<"#", ":">>)
            THEN [cur EXCEPT !.locations = @ \o SplitWs(Strip(From(line, 2)))]
            ELSE IF StartsWith(line, <<"#", "~">>)
            THEN [cur EXCEPT !.is_obsolete = TRUE, !.comments = Append(@, line)]
            ELSE [cur EXCEPT !.comments = Append(@, line)]
    IN [st EXCEPT !.current = <<upd>>]

\* the try/except around _parse_string: the value is used or the error is kept
ValidatorSetMsgid(st1, parsed, lineno) ==
    IF parsed.raised
    THEN [st1 EXCEPT !.parse_errors = Append(@, [line |-> lineno, kind |-> "malformed"])]
    ELSE [st1 EXCEPT !.current[1].msgid = parsed.val,
                     !.current[1].is_header = IF parsed.val = <<>> THEN TRUE ELSE @]

ValidatorMsgidLine(st, line, lineno) ==
    ValidatorSetMsgid(
        [st EXCEPT !.current = IF @ = <<>> THEN <<ValidatorPoEntry(lineno)>> ELSE @,
                   !.mode = "msgid"],
        ValidatorPoParser_parse_string(From(line, 6)), lineno)

ValidatorSetMsgstr(st1, parsed, lineno) ==
    IF parsed.raised
    THEN [st1 EXCEPT !.parse_errors = Append(@, [line |-> lineno, kind |-> "malformed"])]
    ELSE IF st1.current = <<>>
    THEN [st1 EXCEPT !.raised = TRUE]
    ELSE [st1 EXCEPT !.current[1].msgstr = parsed.val]

\* current.msgstr = ... with current None raises AttributeError, which the
\* except ValueError clause does not catch
ValidatorMsgstrLine(st, line, lineno) ==
    ValidatorSetMsgstr([st EXCEPT !.mode = "msgstr"],
                       ValidatorPoParser_parse_string(From(line, 7)), lineno)

\* current.msgid += chunk with current None raises AttributeError
ValidatorAppendChunk(st, parsed, lineno) ==
    IF parsed.raised
    THEN [st EXCEPT !.parse_errors = Append(@, [line |-> lineno, kind |-> "malformed"])]
    ELSE IF st.current = <<>>
    THEN [st EXCEPT !.raised = TRUE]
    ELSE IF st.mode = "msgid"
    THEN [st EXCEPT !.current[1].msgid = @ \o parsed.val]
    ELSE [st EXCEPT !.current[1].msgstr = @ \o parsed.val]

ValidatorContinuationLine(st, line, lineno) ==
    ValidatorAppendChunk(st, ValidatorPoParser_parse_string(line), lineno)

\* The loop body, for one stripped line
ValidatorParseStripped(st, line, lineno) ==
    IF st.raised THEN st
    ELSE IF line = <<>> THEN ValidatorFinalize(st)
    ELSE IF StartsWith(line, <<"#">>) THEN ValidatorCommentLine(st, line, lineno)
    ELSE IF StartsWith(line, MSGID_) THEN ValidatorMsgidLine(st, line, lineno)
    ELSE IF StartsWith(line, MSGSTR_) THEN ValidatorMsgstrLine(st, line, lineno)
    ELSE IF StartsWith(line, <<QT>>) /\ st.mode # "none"
    THEN ValidatorContinuationLine(st, line, lineno)
    ELSE [st EXCEPT !.parse_errors = Append(@, [line |-> lineno, kind |-> "unexpected"])]

ValidatorParseLine(st, raw_line, lineno) ==
    ValidatorParseStripped(st, Strip(raw_line), lineno)

RECURSIVE ValidatorParseLines(_, _, _)
ValidatorParseLines(st, lines, i) ==
    IF i > Len(lines) THEN st
    ELSE ValidatorParseLines(ValidatorParseLine(st, lines[i], i), lines, i + 1)

\* PoParser(content).parse(): [entries, parse_errors, raised]
ValidatorFinishParse(st) ==
    IF st.raised
    THEN [entries |-> st.entries, parse_errors |-> st.parse_errors, raised |-> TRUE]
    ELSE [entries |-> ValidatorFinalize(st).entries,
          parse_errors |-> st.parse_errors, raised |-> FALSE]

ValidatorPoParser_parse(content) ==
    ValidatorFinishParse(ValidatorParseLines(ValidatorParserStart, SplitLines(content), 1))

---------------------------------------------------------------------------
(* PoSerializer (i18n_converter.py) *)

MaxLocLine == 76

NotObsoleteComment(c) == ~StartsWith(c, <<"#", "~">>)

\* the location loop: parts emitted so far and the line being filled
RECURSIVE PackLocations(_, _, _)
PackLocations(locs, parts, loc_line) ==
    IF locs = <<>> THEN Append(parts, loc_line)
    ELSE IF Len(loc_line) + Len(locs[1]) + 1 > MaxLocLine
         THEN PackLocations(Tail(locs), Append(parts, loc_line), <<"#", ":", SP>> \o locs[1])
         ELSE PackLocations(Tail(locs), parts, loc_line \o <<SP>> \o locs[1])

\* one quoted line per chunk, each but the last ending in backslash-n
ChunkLines(chunks) ==
    [i \in 1..Len(chunks) |->
        <<QT>> \o chunks[i] \o (IF i < Len(chunks) THEN <<BS, "n">> ELSE <<>>) \o <<QT>>]

\* the lines of a value under a keyword: msgid "..." or the multi-line form
ValueLines(keyword, escaped, multiline) ==
    IF multiline
    THEN <<keyword \o <<QT, QT>>>> \o ChunkLines(Split(escaped, <<BS, "n">>))
    ELSE <<keyword \o <<QT>> \o escaped \o <<QT>>>>

PoSerializer_serialize_entry(entry) ==
    LET comment_parts == SelectSeq(entry.comments, NotObsoleteComment)
        extracted_parts ==
            [i \in 1..Len(entry.extracted_comments) |->
                <<"#", ".", SP>> \o entry.extracted_comments[i]]
        location_parts ==
            IF entry.locations # <<>>
            THEN PackLocations(entry.locations, <<>>, <<"#", ":">>)
            ELSE <<>>
        flag_parts ==
            IF entry.flags # <<>>
            THEN <<<<"#", ",", SP>> \o Join(entry.flags, <<",", SP>>)>>
            ELSE <<>>
        msgid_parts ==
            ValueLines(MSGID_, PoSerializer_escape(entry.msgid),
                       InSeq(NL, entry.msgid))
        escaped_str == IF entry.msgstr # <<>> THEN PoSerializer_escape(entry.msgstr) ELSE <<>>
        msgstr_parts ==
            ValueLines(MSGSTR_, escaped_str,
                       entry.msgstr # <<>> /\ InSeq(NL, entry.msgstr))
    IN Join(comment_parts \o extracted_parts \o location_parts \o flag_parts
            \o msgid_parts \o msgstr_parts, <<NL>>)

PoSerializer_serialize(entry_list) ==
    Join([i \in 1..Len(entry_list) |-> PoSerializer_serialize_entry(entry_list[i])],
         <<NL, NL>>) \o <<NL>>

---------------------------------------------------------------------------
(* action_merge (i18n_converter.py) *)

\* A dict is the sequence of its items in insertion order; an entry object
\* is named by its index in the list that parse() returned.

MapHas(d, k) == \E i \in 1..Len(d) : d[i].key = k

MapGet(d, k) == d[CHOOSE i \in 1..Len(d) : d[i].key = k].val

\* d[k] = v: a key set again keeps its place and takes the new value
MapPut(d, k, v) ==
    IF MapHas(d, k)
    THEN [i \in 1..Len(d) |-> IF d[i].key = k THEN [key |-> k, val |-> v] ELSE d[i]]
    ELSE Append(d, [key |-> k, val |-> v])

\* A mutant of IndexedEntry: obsolete entries are left out of the lookup maps
IndexedEntry_active(e) == ~e.is_header /\ ~e.is_obsolete

\* the filter of the lookup maps
IndexedEntry(e) == ~e.is_header

\* {e.msgid: e for e in entry_list if not e.is_header}
RECURSIVE BuildMapFrom(_, _, _)
BuildMapFrom(d, entry_list, i) ==
    IF i > Len(entry_list) THEN d
    ELSE BuildMapFrom(
            IF IndexedEntry(entry_list[i]) THEN MapPut(d, entry_list[i].msgid, i) ELSE d,
            entry_list, i + 1)

BuildMap(entry_list) == BuildMapFrom(<<>>, entry_list, 1)

\* next((e for e in base_entries if e.is_header), None): its index, 0 is None
HeaderIndex(entry_list) ==
    IF \E i \in 1..Len(entry_list) : entry_list[i].is_header
    THEN CHOOSE i \in 1..Len(entry_list) :
            /\ entry_list[i].is_header
            /\ \A j \in 1..(i - 1) : ~entry_list[j].is_header
    ELSE 0

DigitChars == <<"0", "1", "2", "3", "4", "5", "6", "7", "8", "9">>

Digits2(n) == <<DigitChars[((n \div 10) % 10) + 1], DigitChars[(n % 10) + 1]>>

\* strftime("%Y-%m-%d %H:%M+0000")
Strftime(t) ==
    Digits2(t.year \div 100) \o Digits2(t.year % 100) \o <<"-">> \o Digits2(t.month)
    \o <<"-">> \o Digits2(t.day) \o <<SP>> \o Digits2(t.hour) \o <<":">>
    \o Digits2(t.minute) \o <<"+", "0", "0", "0", "0">>

REVISION_DATE == <<"P", "O", "-", "R", "e", "v", "i", "s", "i", "o", "n", "-",
                   "D", "a", "t", "e", ":">>

\* where a match of PO-Revision-Date:[^\n]*\\n that begins at p ends, 0 if
\* none does: the greedy [^\n]* runs to the last backslash-n of p's line
RevisionDateMatchEnd(s, p) ==
    LET after == p + Len(REVISION_DATE)
        newlines == {q \in after..Len(s) : s[q] = NL}
        line_end == IF newlines = {} THEN Len(s) ELSE Min(newlines) - 1
        ends == {q \in (after + 1)..line_end : s[q - 1] = BS /\ s[q] = "n"}
    IN IF after - 1 <= Len(s) /\ SubSeq(s, p, after - 1) = REVISION_DATE /\ ends # {}
       THEN Max(ends) ELSE 0

\* re.sub(r'PO-Revision-Date:[^\n]*\\n', 'PO-Revision-Date: {now}\\n', s):
\* the replacement template's \n is a newline
RECURSIVE ReSubRevisionDateFrom(_, _, _)
ReSubRevisionDateFrom(s, now, start) ==
    LET starts == {p \in start..Len(s) : RevisionDateMatchEnd(s, p) # 0} IN
    IF starts = {} THEN SubSeq(s, start, Len(s))
    ELSE SubSeq(s, start, Min(starts) - 1)
         \o REVISION_DATE \o <<SP>> \o now \o <<NL>>
         \o ReSubRevisionDateFrom(s, now, RevisionDateMatchEnd(s, Min(starts)) + 1)

ReSubRevisionDate(s, now) == ReSubRevisionDateFrom(s, now, 1)

\* new_entry.locations or base_entry.locations
MergedLocations(new_locations, base_locations) ==
    IF new_locations # <<>> THEN new_locations ELSE base_locations

OBSOLETE_MARK == <<"#", "~", SP, "o", "b", "s", "o", "l", "e", "t", "e">>

\* A mutant of MarkObsolete: the entry is not marked
MarkObsolete_unmarked(e) == [e EXCEPT !.comments = <<OBSOLETE_MARK>> \o @]

\* base_entry.is_obsolete = True; base_entry.comments.insert(0, "#~ obsolete")
MarkObsolete(e) ==
    [e EXCEPT !.is_obsolete = TRUE, !.comments = <<OBSOLETE_MARK>> \o @]

\* the loop over new_map.items()
RECURSIVE MergeNew(_, _, _, _, _)
MergeNew(st, new_map, base_map, new_list, j) ==
    IF j > Len(new_map) THEN st
    ELSE LET msgid == new_map[j].key
             new_entry == new_list[new_map[j].val]
         IN IF MapHas(base_map, msgid)
            THEN LET b == MapGet(base_map, msgid)
                     base_entry ==
                        [(st.base)[b] EXCEPT
                            !.locations = MergedLocations(new_entry.locations, @)]
                 IN MergeNew([st EXCEPT !.base[b] = base_entry,
                                        !.merged = Append(@, base_entry),
                                        !.refs = Append(@, [obj |-> "base", idx |-> b]),
                                        !.preserved = @ + 1],
                             new_map, base_map, new_list, j + 1)
            ELSE MergeNew([st EXCEPT !.merged = Append(@, clone_empty(new_entry)),
                                     !.refs = Append(@, [obj |-> "clone", idx |-> new_map[j].val]),
                                     !.added = @ + 1],
                          new_map, base_map, new_list, j + 1)

\* the loop over base_map.items()
RECURSIVE MergeObsolete(_, _, _, _)
MergeObsolete(st, new_map, base_map, j) ==
    IF j > Len(base_map) THEN st
    ELSE IF ~MapHas(new_map, base_map[j].key)
         THEN LET b == base_map[j].val
                  base_entry == MarkObsolete((st.base)[b])
              IN MergeObsolete([st EXCEPT !.base[b] = base_entry,
                                          !.merged = Append(@, base_entry),
                                          !.refs = Append(@, [obj |-> "base", idx |-> b]),
                                          !.marked_obsolete = @ + 1],
                               new_map, base_map, j + 1)
         ELSE MergeObsolete(st, new_map, base_map, j + 1)

\* header.msgstr = re.sub(...), when there is a header
StampHeader(base_list, h, now) ==
    IF h # 0
    THEN [base_list EXCEPT ![h].msgstr = ReSubRevisionDate(@, Strftime(now))]
    ELSE base_list

\* merged = [header] if header else [], and the counters at 0
MergeStart(base1, h) ==
    [base |-> base1,
     merged |-> IF h # 0 THEN <<base1[h]>> ELSE <<>>,
     refs |-> IF h # 0 THEN <<[obj |-> "base", idx |-> h]>> ELSE <<>>,
     added |-> 0, preserved |-> 0, marked_obsolete |-> 0]

\* A mutant of MergeLoops: the obsolete loop runs before the loop over new_map
MergeLoops_obsoleteFirst(st0, new_map, base_map, new_list) ==
    MergeNew(MergeObsolete(st0, new_map, base_map, 1), new_map, base_map, new_list, 1)

\* the two loops, in their order
MergeLoops(st0, new_map, base_map, new_list) ==
    MergeObsolete(MergeNew(st0, new_map, base_map, new_list, 1), new_map, base_map, 1)

\* action_merge from the parsed lists to the merged list and the counters
MergeEntries(base_list, new_list, now) ==
    MergeLoops(MergeStart(StampHeader(base_list, HeaderIndex(base_list), now),
                          HeaderIndex(base_list)),
               BuildMap(new_list), BuildMap(base_list), new_list)

\* action_merge: read both files, parse, merge, serialize, write
\* the merged list serialized and written
MergeWritten(st, new_list) ==
    [raised |-> FALSE, base_entries |-> st.base, new_entries |-> new_list,
     merged |-> st.merged, refs |-> st.refs, added |-> st.added,
     preserved |-> st.preserved, marked_obsolete |-> st.marked_obsolete,
     output |-> PoSerializer_serialize(st.merged)]

MergeParsed(base_parse, new_parse, now) ==
    IF base_parse.raised
    THEN [raised |-> TRUE, base_entries |-> <<>>, new_entries |-> <<>>,
          merged |-> <<>>, refs |-> <<>>, added |-> 0, preserved |-> 0,
          marked_obsolete |-> 0, output |-> <<>>]
    ELSE IF new_parse.raised
    THEN [raised |-> TRUE, base_entries |-> base_parse.entries, new_entries |-> <<>>,
          merged |-> <<>>, refs |-> <<>>, added |-> 0, preserved |-> 0,
          marked_obsolete |-> 0, output |-> <<>>]
    ELSE MergeWritten(MergeEntries(base_parse.entries, new_parse.entries, now),
                      new_parse.entries)

action_merge(base_text, new_text, now) ==
    MergeParsed(PoParser_parse(base_text), PoParser_parse(new_text), now)

---------------------------------------------------------------------------
(* action_clean (i18n_converter.py), writing to a separate output path *)

NotHeader(e) == ~e.is_header

NotObsolete(e) == ~e.is_obsolete

CleanParsed(parse) ==
    LET original_count == Len(SelectSeq(parse.entries, NotHeader))
        kept == SelectSeq(parse.entries, NotObsolete)
    IN [raised |-> parse.raised,
        entries |-> parse.entries,
        clean_entries |-> kept,
        removed |-> original_count - Len(SelectSeq(kept, NotHeader)),
        output |-> PoSerializer_serialize(kept)]

action_clean(po_text) == CleanParsed(PoParser_parse(po_text))

---------------------------------------------------------------------------
(* The .po files the actions are run on *)

Quoted(lit) == <<QT>> \o lit \o <<QT>>

\* a header block whose msgstr has a PO-Revision-Date line
HeaderBlock ==
    << MSGID_ \o Quoted(<<>>),
       MSGSTR_ \o Quoted(<<>>),
       Quoted(REVISION_DATE \o <<SP, "1", BS, "n">>) >>

\* "S" translated, with a translator comment and a location
BaseSaveBlock ==
    << <<"#", SP, "c">>,
       <<"#", ":", SP, "a", ":", "1">>,
       MSGID_ \o Quoted(<<"S">>),
       MSGSTR_ \o Quoted(<<"X">>) >>

\* "S" again, fuzzy, with another translation and location
BaseSaveAgainBlock ==
    << <<"#", ":", SP, "a", ":", "2">>,
       <<"#", ",", SP>> \o FUZZY,
       MSGID_ \o Quoted(<<"S">>),
       MSGSTR_ \o Quoted(<<"Y">>) >>

\* "C" translated, in a block that carries a #~ line
BaseOldCancelBlock ==
    << <<"#", "~", SP, "o">>,
       <<"#", ":", SP, "a", ":", "3">>,
       MSGID_ \o Quoted(<<"C">>),
       MSGSTR_ \o Quoted(<<"Z">>) >>

\* the two-line source text "S\nC", written in the multi-line form
BaseMultiBlock ==
    << MSGID_ \o Quoted(<<>>),
       Quoted(<<"S", BS, "n">>),
       Quoted(<<"C">>),
       MSGSTR_ \o Quoted(<<"X">>) >>

BaseBlocks ==
    {HeaderBlock, BaseSaveBlock, BaseSaveAgainBlock, BaseOldCancelBlock, BaseMultiBlock}

\* "S" without any location
NewSaveBlock ==
    << MSGID_ \o Quoted(<<"S">>),
       MSGSTR_ \o Quoted(<<>>) >>

\* "C", fuzzy and translated in the new file
NewCancelBlock ==
    << <<"#", ":", SP, "n", ":", "7">>,
       <<"#", ",", SP>> \o FUZZY,
       MSGID_ \o Quoted(<<"C">>),
       MSGSTR_ \o Quoted(<<"W">>) >>

\* "D", a string base does not have
NewDeleteBlock ==
    << <<"#", ":", SP, "n", ":", "8">>,
       MSGID_ \o Quoted(<<"D">>),
       MSGSTR_ \o Quoted(<<>>) >>

NewBlocks == {NewSaveBlock, NewCancelBlock, NewDeleteBlock}

\* a file: its blocks separated by one blank line
FileText(blocks) ==
    Join([i \in 1..Len(blocks) |-> Join(blocks[i], <<NL>>)], <<NL, NL>>) \o <<NL>>

BaseFiles == {FileText(bs) : bs \in StringsUpTo(BaseBlocks, MaxBase)}

NewFiles == {FileText(bs) : bs \in StringsUpTo(NewBlocks, MaxNew)}

\* the injectable clock
Clock ==
    {[year |-> 2026, month |-> 11, day |-> 3, hour |-> 9, minute |-> 5],
     [year |-> 2027, month |-> 1, day |-> 31, hour |-> 23, minute |-> 59]}

---------------------------------------------------------------------------
(* The merge and clean actions *)

Init ==
    /\ pc = "start"
    /\ IdleFiles
    /\ str_in = <<>>
    /\ str_escaped = <<>>
    /\ str_out = <<>>
    /\ base_content \in BaseFiles
    /\ new_content \in NewFiles \cup {base_content}
    /\ base_entries = <<>>
    /\ new_entries = <<>>
    /\ merged = <<>>
    /\ merged_ref = <<>>
    /\ added = 0
    /\ preserved = 0
    /\ marked_obsolete = 0
    /\ output_content = <<>>
    /\ entries = <<>>
    /\ clean_entries = <<>>
    /\ removed = 0
    /\ clean_content = <<>>
    /\ IdleValidate

ActionMerge ==
    /\ pc = "start"
    /\ \E bp \in {PoParser_parse(base_content)} : \E np \in {PoParser_parse(new_content)} :
       \E now \in Clock : \E r \in {MergeParsed(bp, np, now)} :
         /\ pc' = IF r.raised THEN "raised" ELSE "merged"
         /\ base_entries' = r.base_entries
         /\ new_entries' = r.new_entries
         /\ merged' = r.merged
         /\ merged_ref' = r.refs
         /\ added' = r.added
         /\ preserved' = r.preserved
         /\ marked_obsolete' = r.marked_obsolete
         /\ output_content' = r.output
    /\ UNCHANGED <<str_in, str_escaped, str_out, base_content, new_content,
                   entries, clean_entries, removed, clean_content, ValidateVars, FileVars>>

\* action_clean on the file action_merge wrote
ActionClean ==
    /\ pc = "merged"
    /\ \E r \in {action_clean(output_content)} :
         /\ pc' = IF r.raised THEN "raised" ELSE "cleaned"
         /\ entries' = r.entries
         /\ clean_entries' = r.clean_entries
         /\ removed' = r.removed
         /\ clean_content' = IF r.raised THEN clean_content ELSE r.output
    /\ UNCHANGED <<str_in, str_escaped, str_out, base_content, new_content,
                   base_entries, new_entries, merged, merged_ref, added, preserved,
                   marked_obsolete, output_content, ValidateVars, FileVars>>

Next == ActionMerge \/ ActionClean

Spec == Init /\ [][Next]_vars

---------------------------------------------------------------------------
(* PoParser.parse of both scripts, on texts made of a few kinds of line *)

MaxLines == 4

\* self._errors of the converter's parser: set to [] in __init__ and never
\* written by parse()
PoParser_errors == <<>>

BlankLine == <<>>
TranslatorCommentLine == <<"#", SP, "c">>
EmptyMsgidLine == MSGID_ \o Quoted(<<>>)
SaveMsgidLine == MSGID_ \o Quoted(<<"S">>)
TranslationLine == MSGSTR_ \o Quoted(<<"X">>)
QuotedLine == Quoted(<<"C">>)
\* a line that is no comment, directive or literal
OtherLine == <<"x">>
\* a msgid directive whose literal has no closing quote
UnclosedMsgidLine == MSGID_ \o <<QT, "S">>

FuzzyFlagLine == <<"#", ",", SP>> \o FUZZY
FormatFlagLine == <<"#", ",", SP>> \o PYTHON_FORMAT

ParseLinePool ==
    {BlankLine, TranslatorCommentLine, EmptyMsgidLine, SaveMsgidLine,
     TranslationLine, QuotedLine, OtherLine, UnclosedMsgidLine, FuzzyFlagLine,
     FormatFlagLine}

\* a text: its lines, each ended by a newline
LinesText(ls) == IF ls = <<>> THEN <<>> ELSE Join(ls, <<NL>>) \o <<NL>>

ParseTexts == {LinesText(ls) : ls \in StringsUpTo(ParseLinePool, MaxLines)}

InitParse ==
    /\ pc = "text"
    /\ IdleFiles
    /\ IdleEscape
    /\ IdleMerge
    /\ po_content \in ParseTexts
    /\ parser = "none"
    /\ parsed_entries = <<>>
    /\ parse_errors = <<>>
    /\ lang = <<>>
    /\ strict = FALSE
    /\ issues = <<>>

\* PoParser(content).parse() of i18n_converter.py
ParseConverter ==
    /\ pc = "text"
    /\ \E r \in {PoParser_parse(po_content)} :
         /\ pc' = IF r.raised THEN "raised" ELSE "parsed"
         /\ parsed_entries' = r.entries
    /\ parser' = "converter"
    /\ parse_errors' = PoParser_errors
    /\ UNCHANGED <<EscapeVars, MergeVars, po_content, lang, strict, issues, FileVars>>

\* PoParser(content).parse() of i18n_validator.py
ParseValidator ==
    /\ pc = "text"
    /\ \E r \in {ValidatorPoParser_parse(po_content)} :
         /\ pc' = IF r.raised THEN "raised" ELSE "parsed"
         /\ parsed_entries' = r.entries
         /\ parse_errors' = r.parse_errors
    /\ parser' = "validator"
    /\ UNCHANGED <<EscapeVars, MergeVars, po_content, lang, strict, issues, FileVars>>

NextParse == ParseConverter \/ ParseValidator

SpecParse == InitParse /\ [][NextParse]_vars

---------------------------------------------------------------------------
(* PoValidator (i18n_validator.py) *)

\* U+202E RIGHT-TO-LEFT OVERRIDE, U+202D LEFT-TO-RIGHT OVERRIDE and the other
\* direction control characters, each one character of a str
RLO == "U+202E"
LRO == "U+202D"
RLM == "U+200F"
LRM == "U+200E"
RLE == "U+202B"
LRE == "U+202A"
PDF == "U+202C"
RLI == "U+2067"
LRI == "U+2066"
PDI == "U+2069"

RTL_MARKS == {RLM, LRM, RLE, LRE, PDF, LRO, RLO, RLI, LRI, PDI}

\* the characters whose unicodedata.name starts with ARABIC, of those the
\* texts use: U+0628 ARABIC LETTER BEH
ArabicChars == {"U+0628"}

\* U+00D8 and U+00D9, what mis-decoded Arabic shows
MojibakeChars == {"U+00D8", "U+00D9"}

UpperLetters == <<"A", "B", "C", "D", "E", "F", "G", "H", "I", "J", "K", "L", "M", "N", "O", "P", "Q", "R", "S", "T", "U", "V", "W", "X", "Y", "Z">>

LowerLetters == <<"a", "b", "c", "d", "e", "f", "g", "h", "i", "j", "k", "l", "m", "n", "o", "p", "q", "r", "s", "t", "u", "v", "w", "x", "y", "z">>

LowerChar(c) ==
    IF \E k \in 1..26 : UpperLetters[k] = c
    THEN LowerLetters[CHOOSE k \in 1..26 : UpperLetters[k] = c]
    ELSE c

\* str.lower()
Lower(s) == [p \in 1..Len(s) |-> LowerChar(s[p])]

\* s[:n]
Prefix(s, n) == IF Len(s) <= n THEN s ELSE SubSeq(s, 1, n)

\* len(s) - len(s.lstrip())
LeadingSpaces(s) ==
    IF \A p \in 1..Len(s) : IsSpace(s[p]) THEN Len(s)
    ELSE CHOOSE k \in 0..(Len(s) - 1) :
             ~IsSpace(s[k + 1]) /\ \A j \in 1..k : IsSpace(s[j])

\* len(s) - len(s.rstrip())
TrailingSpaces(s) ==
    IF \A p \in 1..Len(s) : IsSpace(s[p]) THEN Len(s)
    ELSE CHOOSE k \in 0..(Len(s) - 1) :
             ~IsSpace(s[Len(s) - k]) /\ \A j \in 0..(k - 1) : IsSpace(s[Len(s) - j])

\* s.strip('"')
StripQuotes(s) ==
    IF \A p \in 1..Len(s) : s[p] = QT THEN <<>>
    ELSE LET lead == CHOOSE k \in 0..(Len(s) - 1) :
                         s[k + 1] # QT /\ \A j \in 1..k : s[j] = QT
             trail == CHOOSE k \in 0..(Len(s) - 1) :
                          s[Len(s) - k] # QT /\ \A j \in 0..(k - 1) : s[Len(s) - j] = QT
         IN SubSeq(s, lead + 1, Len(s) - trail)

\* a finding: the message is kept as its kind and the values formatted in it
\* (numbers in their order, names as a set of str)
ValidationIssue(severity, line, message, context) ==
    [severity |-> severity, line |-> line, message |-> message, context |-> context]

Message(kind, numbers, names) == [kind |-> kind, numbers |-> numbers, names |-> names]

\* re.search(r"Content-Type:\s*text/plain", msgstr)
CONTENT_TYPE == <<"C", "o", "n", "t", "e", "n", "t", "-", "T", "y", "p", "e", ":">>
TEXT_PLAIN == <<"t", "e", "x", "t", "/", "p", "l", "a", "i", "n">>

HasContentType(msgstr) ==
    \E p \in Occurrences(msgstr, CONTENT_TYPE, 1) :
        \E q \in (p + Len(CONTENT_TYPE))..Len(msgstr) :
            /\ \A r \in (p + Len(CONTENT_TYPE))..(q - 1) : IsSpace(msgstr[r])
            /\ StartsWith(From(msgstr, q - 1), TEXT_PLAIN)

CONTENT_TRANSFER_ENCODING == <<"C", "o", "n", "t", "e", "n", "t", "-", "T", "r", "a", "n", "s", "f", "e", "r", "-", "E", "n", "c", "o", "d", "i", "n", "g", ":">>
MIME_VERSION == <<"M", "I", "M", "E", "-", "V", "e", "r", "s", "i", "o", "n", ":">>
LANGUAGE == <<"L", "a", "n", "g", "u", "a", "g", "e", ":">>

\* the names of the required fields whose pattern is not found, in order
MissingFields(msgstr) ==
    (IF HasContentType(msgstr) THEN <<>> ELSE <<<<"C", "o", "n", "t", "e", "n", "t", "-", "T", "y", "p", "e">>>>)
    \o (IF Contains(msgstr, CONTENT_TRANSFER_ENCODING) THEN <<>> ELSE <<<<"C", "o", "n", "t", "e", "n", "t", "-", "T", "r", "a", "n", "s", "f", "e", "r", "-", "E", "n", "c", "o", "d", "i", "n", "g">>>>)
    \o (IF Contains(msgstr, MIME_VERSION) THEN <<>> ELSE <<<<"M", "I", "M", "E", "-", "V", "e", "r", "s", "i", "o", "n">>>>)
    \o (IF Contains(msgstr, LANGUAGE) THEN <<>> ELSE <<<<"L", "a", "n", "g", "u", "a", "g", "e">>>>)

CHARSET_EQ == <<"c", "h", "a", "r", "s", "e", "t", "=">>

\* re.search(r"charset=([^\s\\]+)", msgstr, re.IGNORECASE): where group 1
\* starts in the leftmost match, 0 when there is none
CharsetStart(msgstr) ==
    LET hits == {p \in 1..(Len(msgstr) - Len(CHARSET_EQ)) :
                    /\ Lower(SubSeq(msgstr, p, p + Len(CHARSET_EQ) - 1)) = CHARSET_EQ
                    /\ ~IsSpace(msgstr[p + Len(CHARSET_EQ)])
                    /\ msgstr[p + Len(CHARSET_EQ)] # BS}
    IN IF hits = {} THEN 0 ELSE Min(hits) + Len(CHARSET_EQ)

\* the longest run of characters from `start` that satisfy none of \s and \\
CharsetGroup(msgstr, start) ==
    LET stops == {q \in start..Len(msgstr) : IsSpace(msgstr[q]) \/ msgstr[q] = BS}
    IN SubSeq(msgstr, start, IF stops = {} THEN Len(msgstr) ELSE Min(stops) - 1)

UTF_8 == <<"u", "t", "f", "-", "8">>
UTF8 == <<"u", "t", "f", "8">>

PLURAL_FORMS == <<"P", "l", "u", "r", "a", "l", "-", "F", "o", "r", "m", "s">>
NPLURALS_EQ == <<"n", "p", "l", "u", "r", "a", "l", "s", "=">>

IsDigit(c) == \E k \in 1..10 : DigitChars[k] = c

\* int(digits)
RECURSIVE ParseInt(_)
ParseInt(digits) ==
    IF digits = <<>> THEN 0
    ELSE 10 * ParseInt(SubSeq(digits, 1, Len(digits) - 1))
         + (CHOOSE k \in 0..9 : DigitChars[k + 1] = digits[Len(digits)])

\* re.search(r"nplurals=(\d+)", msgstr): where group 1 starts, 0 when no match
NpluralsStart(msgstr) ==
    LET hits == {p \in Occurrences(msgstr, NPLURALS_EQ, 1) :
                    /\ p + Len(NPLURALS_EQ) <= Len(msgstr)
                    /\ IsDigit(msgstr[p + Len(NPLURALS_EQ)])}
    IN IF hits = {} THEN 0 ELSE Min(hits) + Len(NPLURALS_EQ)

NpluralsGroup(msgstr, start) ==
    LET stops == {q \in start..Len(msgstr) : ~IsDigit(msgstr[q])}
    IN SubSeq(msgstr, start, IF stops = {} THEN Len(msgstr) ELSE Min(stops) - 1)

\* the "Header missing field" warnings, one per field of `fields`
RECURSIVE MissingFieldIssues(_, _)
MissingFieldIssues(fields, line) ==
    IF fields = <<>> THEN <<>>
    ELSE <<ValidationIssue("warning", line,
                           Message("header_missing_field", <<>>, {fields[1]}), <<>>)>>
         \o MissingFieldIssues(Tail(fields), line)

CharsetIssues(msgstr, line) ==
    LET start == CharsetStart(msgstr) IN
    IF start # 0
    THEN LET charset == Lower(StripQuotes(CharsetGroup(msgstr, start))) IN
         IF charset \notin {UTF_8, UTF8}
         THEN <<ValidationIssue("error", line,
                                Message("charset_not_utf8", <<>>, {charset}), <<>>)>>
         ELSE <<>>
    ELSE <<ValidationIssue("error", line, Message("charset_missing", <<>>, {}), <<>>)>>

PluralFormsIssues(msgstr, line, is_arabic) ==
    IF ~is_arabic THEN <<>>
    ELSE IF ~Contains(msgstr, PLURAL_FORMS)
    THEN <<ValidationIssue("warning", line,
                           Message("arabic_missing_plural_forms", <<>>, {}), <<>>)>>
    ELSE LET start == NpluralsStart(msgstr) IN
         IF start # 0 /\ ParseInt(NpluralsGroup(msgstr, start)) # 6
         THEN <<ValidationIssue("warning", line,
                    Message("arabic_nplurals",
                            <<ParseInt(NpluralsGroup(msgstr, start))>>, {}), <<>>)>>
         ELSE <<>>

\* _check_header: `header` is [] for None, else [the header entry]
check_header(header, is_arabic) ==
    IF header = <<>>
    THEN <<ValidationIssue("error", 0, Message("missing_header", <<>>, {}), <<>>)>>
    ELSE MissingFieldIssues(MissingFields(header[1].msgstr), header[1].line_start)
         \o CharsetIssues(header[1].msgstr, header[1].line_start)
         \o PluralFormsIssues(header[1].msgstr, header[1].line_start, is_arabic)

SpecChars == {"s", "d", "i", "f", "r", "o", "%"}

\* where a match of %(?:\([^)]+\))?[sdifro%] that starts at i ends, 0 when
\* none starts there
SpecEndAt(s, i) ==
    IF s[i] # "%" \/ i = Len(s) THEN 0
    ELSE LET closes == {q \in (i + 2)..Len(s) : s[q] = ")"} IN
         IF /\ s[i + 1] = "("
            /\ closes # {}
            /\ Min(closes) >= i + 3
            /\ Min(closes) < Len(s)
            /\ s[Min(closes) + 1] \in SpecChars
         THEN Min(closes) + 1
         ELSE IF s[i + 1] \in SpecChars THEN i + 1 ELSE 0

\* spec_pattern.findall(s)
RECURSIVE FindSpecsFrom(_, _)
FindSpecsFrom(s, start) ==
    LET hits == {p \in start..Len(s) : SpecEndAt(s, p) # 0} IN
    IF hits = {} THEN <<>>
    ELSE <<SubSeq(s, Min(hits), SpecEndAt(s, Min(hits)))>>
         \o FindSpecsFrom(s, SpecEndAt(s, Min(hits)) + 1)

FindSpecs(s) == FindSpecsFrom(s, 1)

IsPositional(spec) == ~StartsWith(spec, <<"%", "(">>)

\* the names in the specifiers that have a "("
NamedSpecs(specs) ==
    {SubSeq(specs[k], 3, Len(specs[k]) - 2) :
        k \in {j \in 1..Len(specs) : Contains(specs[j], <<"(">>)}}

check_format_specifiers(entry, lineno) ==
    LET src_specs == FindSpecs(entry.msgid)
        dst_specs == IF entry.msgstr # <<>> THEN FindSpecs(entry.msgstr) ELSE <<>>
        src_positional == SelectSeq(src_specs, IsPositional)
        dst_positional == SelectSeq(dst_specs, IsPositional)
        missing_named == NamedSpecs(src_specs) \ NamedSpecs(dst_specs)
    IN (IF Len(src_positional) # Len(dst_positional)
        THEN <<ValidationIssue("error", lineno,
                   Message("format_specifier_mismatch",
                           <<Len(src_positional), Len(dst_positional)>>, {}),
                   Prefix(entry.msgid, 60))>>
        ELSE <<>>)
       \o (IF missing_named # {}
           THEN <<ValidationIssue("error", lineno,
                      Message("missing_named_specifiers", <<>>, missing_named),
                      Prefix(entry.msgid, 60))>>
           ELSE <<>>)

check_arabic_specific(entry, lineno) ==
    LET msgstr == entry.msgstr
        has_arabic == \E p \in 1..Len(msgstr) :
                          ~IsSpace(msgstr[p]) /\ msgstr[p] \in ArabicChars
        suspicious_marks == {msgstr[p] : p \in {q \in 1..Len(msgstr) : msgstr[q] \in RTL_MARKS}}
    IN (IF ~has_arabic /\ Len(Strip(msgstr)) > 2
        THEN <<ValidationIssue("warning", lineno, Message("no_arabic_characters", <<>>, {}),
                               Prefix(msgstr, 60))>>
        ELSE <<>>)
       \o (IF \E p \in 1..Len(msgstr) : msgstr[p] \in MojibakeChars
           THEN <<ValidationIssue("error", lineno, Message("mojibake", <<>>, {}),
                                  Prefix(msgstr, 60))>>
           ELSE <<>>)
       \o (IF suspicious_marks # {}
           THEN <<ValidationIssue("info", lineno,
                      Message("direction_control_characters", <<>>,
                              {<<m>> : m \in suspicious_marks}),
                      Prefix(msgstr, 40))>>
           ELSE <<>>)

OverrideChars == {RLO, LRO}

check_bidi_issues(entry, lineno) ==
    IF entry.msgstr = <<>> THEN <<>>
    ELSE IF \E p \in 1..Len(entry.msgstr) : entry.msgstr[p] \in OverrideChars
    THEN <<ValidationIssue("error", lineno, Message("bidi_override", <<>>, {}), <<>>)>>
    ELSE <<>>

check_whitespace(entry, lineno) ==
    IF entry.msgstr = <<>> THEN <<>>
    ELSE LET src_leading == LeadingSpaces(entry.msgid)
             dst_leading == LeadingSpaces(entry.msgstr)
             src_trailing == TrailingSpaces(entry.msgid)
             dst_trailing == TrailingSpaces(entry.msgstr)
         IN (IF src_leading # dst_leading /\ (src_leading > 0 \/ dst_leading > 0)
             THEN <<ValidationIssue("info", lineno,
                        Message("leading_whitespace", <<src_leading, dst_leading>>, {}),
                        Prefix(entry.msgid, 40))>>
             ELSE <<>>)
            \o (IF src_trailing # dst_trailing /\ (src_trailing > 0 \/ dst_trailing > 0)
                THEN <<ValidationIssue("info", lineno,
                           Message("trailing_whitespace", <<src_trailing, dst_trailing>>, {}),
                           Prefix(entry.msgid, 40))>>
                ELSE <<>>)

FuzzyIssues(entry, lineno) ==
    IF entry.is_fuzzy
    THEN <<ValidationIssue("warning", lineno, Message("fuzzy", <<>>, {}),
                           Prefix(entry.msgid, 60))>>
    ELSE <<>>

\* the severities the other way round
EmptySeverity_swapped(is_strict) == IF is_strict THEN "warning" ELSE "error"

\* severity of the empty-translation finding
EmptySeverity(is_strict) == IF ~is_strict THEN "warning" ELSE "error"

\* _check_entry: the findings it adds for one entry
check_entry(entry, is_arabic, is_strict) ==
    LET lineno == entry.line_start IN
    IF entry.is_obsolete THEN <<>>
    ELSE IF entry.msgstr = <<>>
    THEN FuzzyIssues(entry, lineno)
         \o <<ValidationIssue(EmptySeverity(is_strict), lineno,
                              Message("empty_translation", <<>>, {}),
                              Prefix(entry.msgid, 60))>>
    ELSE FuzzyIssues(entry, lineno)
         \o (IF \E k \in 1..Len(entry.flags) : entry.flags[k] = PYTHON_FORMAT
             THEN check_format_specifiers(entry, lineno) ELSE <<>>)
         \o (IF is_arabic THEN check_arabic_specific(entry, lineno) ELSE <<>>)
         \o check_bidi_issues(entry, lineno)
         \o check_whitespace(entry, lineno)

\* the duplicate error, with the later entry's line and the first one's cited
DuplicateIssue_atFirst(entry, first_line) ==
    ValidationIssue("error", first_line,
                    Message("duplicate_msgid", <<entry.line_start>>, {}),
                    Prefix(entry.msgid, 60))

\* the duplicate error: at the entry's line, citing seen[key]
DuplicateIssue(entry, first_line) ==
    ValidationIssue("error", entry.line_start,
                    Message("duplicate_msgid", <<first_line>>, {}),
                    Prefix(entry.msgid, 60))

\* _check_duplicate_msgids: `seen` maps a msgid to the line of its first entry
RECURSIVE check_duplicate_msgids(_, _, _)
check_duplicate_msgids(list, i, seen) ==
    IF i > Len(list) THEN <<>>
    ELSE LET key == list[i].msgid IN
         IF \E k \in 1..Len(seen) : seen[k].key = key
         THEN <<DuplicateIssue(list[i],
                               seen[CHOOSE k \in 1..Len(seen) : seen[k].key = key].val)>>
              \o check_duplicate_msgids(list, i + 1, seen)
         ELSE check_duplicate_msgids(list, i + 1,
                                     Append(seen, [key |-> key, val |-> list[i].line_start]))

RECURSIVE CheckEntries(_, _, _)
CheckEntries(list, is_arabic, is_strict) ==
    IF list = <<>> THEN <<>>
    ELSE check_entry(list[1], is_arabic, is_strict)
         \o CheckEntries(Tail(list), is_arabic, is_strict)

IsHeader(e) == e.is_header

\* PoValidator.is_arabic, from `lang or ""`; None is the empty str here
IsArabic(lang_hint) == StartsWith(Lower(lang_hint), <<"a", "r">>)

\* PoValidator(entries, lang, strict).validate_all()
validate_all(list, lang_hint, is_strict) ==
    IF list = <<>>
    THEN <<ValidationIssue("error", 0, Message("no_entries", <<>>, {}), <<>>)>>
    ELSE LET headers == SelectSeq(list, IsHeader)
             header == IF headers = <<>> THEN <<>> ELSE <<headers[1]>>
             non_header == SelectSeq(list, NotHeader)
         IN check_header(header, IsArabic(lang_hint))
            \o CheckEntries(non_header, IsArabic(lang_hint), is_strict)
            \o check_duplicate_msgids(non_header, 1, <<>>)

---------------------------------------------------------------------------
(* Validation: main() of i18n_validator.py on catalogs made of a few blocks *)

MaxEntries == 3

\* a header whose msgstr has the Content-Type field
ValidHeaderBlock ==
    << MSGID_ \o Quoted(<<>>),
       MSGSTR_ \o Quoted(<<"C", "o", "n", "t", "e", "n", "t", "-", "T", "y", "p", "e", ":", SP, "t", "e", "x", "t", "/", "p", "l", "a", "i", "n", ";", SP, "c", "h", "a", "r", "s", "e", "t", "=", "U", "T", "F", "-", "8", BS, "n">>) >>

\* "S" translated
SaveBlock ==
    << MSGID_ \o Quoted(<<"S">>),
       MSGSTR_ \o Quoted(<<"X">>) >>

\* "S" with an empty translation
SaveEmptyBlock ==
    << MSGID_ \o Quoted(<<"S">>),
       MSGSTR_ \o Quoted(<<>>) >>

\* python-format: two positional specifiers translated with one
FormatBlock ==
    << <<"#", ",", SP>> \o PYTHON_FORMAT,
       MSGID_ \o Quoted(<<"%", "s", SP, "%", "d">>),
       MSGSTR_ \o Quoted(<<"%", "s">>) >>

\* python-format: as many positional specifiers, the named one not translated
NamedBlock ==
    << <<"#", ",", SP>> \o PYTHON_FORMAT,
       MSGID_ \o Quoted(<<"%", "(", "n", ")", "s", "%", "s">>),
       MSGSTR_ \o Quoted(<<"%", "s">>) >>

\* fuzzy, without python-format: a translation of override characters only
OverrideBlock ==
    << <<"#", ",", SP>> \o FUZZY,
       MSGID_ \o Quoted(<<"%", "d">>),
       MSGSTR_ \o Quoted(<<RLO, LRO>>) >>

\* a translation with a right-to-left mark and an Arabic letter
MarkBlock ==
    << MSGID_ \o Quoted(<<"M">>),
       MSGSTR_ \o Quoted(<<RLM, "U+0628">>) >>

\* an obsolete "S" with an empty translation
ObsoleteBlock ==
    << <<"#", "~", SP, "o">>,
       MSGID_ \o Quoted(<<"S">>),
       MSGSTR_ \o Quoted(<<>>) >>

\* python-format, the msgid written on a continuation line, the translation
\* an override character
MultiLineBlock ==
    << <<"#", ",", SP>> \o PYTHON_FORMAT,
       MSGID_ \o Quoted(<<>>),
       Quoted(<<"%", "s">>),
       MSGSTR_ \o Quoted(<<RLO>>) >>

ValidateBlocks ==
    {ValidHeaderBlock, SaveBlock, SaveEmptyBlock, FormatBlock, NamedBlock,
     OverrideBlock, MarkBlock, ObsoleteBlock, MultiLineBlock}

ValidateTexts == {FileText(bs) : bs \in StringsUpTo(ValidateBlocks, MaxEntries)}

\* the --lang values: none, Arabic, and another language
LangHints == {<<>>, <<"a", "r">>, <<"f", "r">>}

InitValidate ==
    /\ pc = "text"
    /\ IdleFiles
    /\ IdleEscape
    /\ IdleMerge
    /\ po_content \in ValidateTexts
    /\ parser = "none"
    /\ parsed_entries = <<>>
    /\ parse_errors = <<>>
    /\ lang \in LangHints
    /\ strict \in BOOLEAN
    /\ issues = <<>>

\* PoValidator(entries, lang=lang, strict=args.strict).validate_all()
ValidateAll ==
    /\ pc = "parsed"
    /\ parser = "validator"
    /\ issues' = validate_all(parsed_entries, lang, strict)
    /\ pc' = "validated"
    /\ UNCHANGED <<EscapeVars, MergeVars, po_content, parser, parsed_entries,
                   parse_errors, lang, strict, FileVars>>

NextValidate == ParseValidator \/ ValidateAll

SpecValidate == InitValidate /\ [][NextValidate]_vars

---------------------------------------------------------------------------
(* Validation of catalogs that start with a header *)

MaxFollow == 1

\* a header that declares six plural forms
SixPluralsHeaderBlock ==
    << MSGID_ \o Quoted(<<>>),
       MSGSTR_ \o Quoted(<<"P", "l", "u", "r", "a", "l", "-", "F", "o", "r", "m", "s", ":", SP, "n", "p", "l", "u", "r", "a", "l", "s", "=", "6", ";", SP, "p", "l", "u", "r", "a", "l", "=", "0", ";", BS, "n">>) >>

\* a header that declares two plural forms
TwoPluralsHeaderBlock ==
    << MSGID_ \o Quoted(<<>>),
       MSGSTR_ \o Quoted(<<"P", "l", "u", "r", "a", "l", "-", "F", "o", "r", "m", "s", ":", SP, "n", "p", "l", "u", "r", "a", "l", "s", "=", "2", ";", SP, "p", "l", "u", "r", "a", "l", "=", "0", ";", BS, "n">>) >>

\* a header whose Plural-Forms field has no nplurals declaration
NoCountHeaderBlock ==
    << MSGID_ \o Quoted(<<>>),
       MSGSTR_ \o Quoted(<<"P", "l", "u", "r", "a", "l", "-", "F", "o", "r", "m", "s", ":", SP, "p", "l", "u", "r", "a", "l", "=", "0", ";", BS, "n">>) >>

HeaderBlocks ==
    {ValidHeaderBlock, SixPluralsHeaderBlock, TwoPluralsHeaderBlock, NoCountHeaderBlock}

HeaderTexts ==
    {FileText(<<h>> \o bs) : h \in HeaderBlocks, bs \in StringsUpTo(ValidateBlocks, MaxFollow)}

InitHeader ==
    /\ pc = "text"
    /\ IdleFiles
    /\ IdleEscape
    /\ IdleMerge
    /\ po_content \in HeaderTexts
    /\ parser = "none"
    /\ parsed_entries = <<>>
    /\ parse_errors = <<>>
    /\ lang \in LangHints
    /\ strict \in BOOLEAN
    /\ issues = <<>>

SpecHeader == InitHeader /\ [][NextValidate]_vars

---------------------------------------------------------------------------
(* action_clean on a .po file of its own *)

MaxClean == 3

\* a block made only of '#~' lines: a commented-out entry
ObsoleteOnlyBlock ==
    << <<"#", "~", SP>> \o MSGID_ \o Quoted(<<"O">>),
       <<"#", "~", SP>> \o MSGSTR_ \o Quoted(<<"P">>) >>

\* a file path of n characters with a line number
PathOf(c, n) == [i \in 1..(n - 2) |-> c] \o <<":", "1">>

\* "L" with one location of 74 characters
LongLocationBlock ==
    << <<"#", ":", SP>> \o PathOf("p", 74),
       MSGID_ \o Quoted(<<"L">>),
       MSGSTR_ \o Quoted(<<>>) >>

\* "T" with three locations: two of 40 characters and a short one
ThreeLocationsBlock ==
    << <<"#", ":", SP>> \o PathOf("q", 40) \o <<SP>> \o PathOf("r", 40)
           \o <<SP, "a", ":", "2">>,
       MSGID_ \o Quoted(<<"T">>),
       MSGSTR_ \o Quoted(<<"U">>) >>

CleanBlocks ==
    {HeaderBlock, BaseSaveBlock, BaseOldCancelBlock, ObsoleteOnlyBlock,
     LongLocationBlock, ThreeLocationsBlock}

CleanFiles == {FileText(bs) : bs \in StringsUpTo(CleanBlocks, MaxClean)}

InitClean ==
    /\ pc = "file"
    /\ IdleFiles
    /\ IdleEscape
    /\ IdleMerge
    /\ po_content \in CleanFiles
    /\ parser = "none"
    /\ parsed_entries = <<>>
    /\ parse_errors = <<>>
    /\ lang = <<>>
    /\ strict = FALSE
    /\ issues = <<>>

\* action_clean(po_path, output_path)
CleanFile ==
    /\ pc = "file"
    /\ \E r \in {action_clean(po_content)} :
         /\ pc' = IF r.raised THEN "raised" ELSE "file_cleaned"
         /\ entries' = r.entries
         /\ clean_entries' = r.clean_entries
         /\ removed' = r.removed
         /\ clean_content' = IF r.raised THEN clean_content ELSE r.output
    /\ UNCHANGED <<EscapeVars, base_content, new_content, base_entries, new_entries,
                   merged, merged_ref, added, preserved, marked_obsolete,
                   output_content, ValidateVars, FileVars>>

NextClean == CleanFile

SpecClean == InitClean /\ [][NextClean]_vars

---------------------------------------------------------------------------
(* Reading a .po file: bytes to text (i18n_validator.py main, i18n_converter.py) *)

\* A file is a sequence of bytes. A byte below 0x80 is written as its ASCII
\* character; the others the files use are 0xEF, 0xBB, 0xBF (together the
\* UTF-8 byte order mark) and 0xFF, which no UTF-8 text contains.
B_EF == "0xEF"
B_BB == "0xBB"
B_BF == "0xBF"
B_FF == "0xFF"

HighBytes == {B_EF, B_BB, B_BF, B_FF}

UTF8_BOM == <<B_EF, B_BB, B_BF>>

\* the character U+FFFD that errors="replace" puts for undecodable bytes
REPLACEMENT_CHAR == "U+FFFD"

\* 0xBB and 0xBF as bytes that continue a sequence 0xEF started
IsTail(bytes, i) == i >= 1 /\ i <= Len(bytes) /\ bytes[i] \in {B_BB, B_BF}

\* byte i is inside a sequence that an earlier 0xEF started
IsContinued(bytes, i) ==
    /\ IsTail(bytes, i)
    /\ \/ (i >= 2 /\ bytes[i - 1] = B_EF)
       \/ (i >= 3 /\ bytes[i - 2] = B_EF /\ IsTail(bytes, i - 1))

\* the character of the three-byte sequence 0xEF b2 b3
ThreeByteChar(b2, b3) ==
    IF b2 = B_BB THEN (IF b3 = B_BF THEN "U+FEFF" ELSE "U+FEFB")
    ELSE (IF b3 = B_BF THEN "U+FFFF" ELSE "U+FFFB")

\* the sequence that starts at byte i is well-formed UTF-8
ValidAt(bytes, i) ==
    \/ bytes[i] \notin HighBytes
    \/ bytes[i] = B_EF /\ IsTail(bytes, i + 1) /\ IsTail(bytes, i + 2)

\* the character decoded from the sequence that starts at byte i
CharAt(bytes, i) ==
    IF bytes[i] \notin HighBytes THEN bytes[i]
    ELSE IF ValidAt(bytes, i) THEN ThreeByteChar(bytes[i + 1], bytes[i + 2])
    ELSE REPLACEMENT_CHAR

\* the k-th smallest element of a set of numbers
Nth(S, k) == CHOOSE p \in S : Cardinality({q \in S : q < p}) = k - 1

\* bytes.decode("utf-8", errors): [ok, text]; strict decoding of ill-formed
\* bytes raises UnicodeDecodeError (ok = FALSE)
DecodeUtf8(bytes, errors) ==
    LET starts == {i \in 1..Len(bytes) : ~IsContinued(bytes, i)}
        valid == \A i \in starts : ValidAt(bytes, i)
    IN IF ~valid /\ errors = "strict"
       THEN [ok |-> FALSE, text |-> <<>>]
       ELSE [ok |-> TRUE,
             text |-> [k \in 1..Cardinality(starts) |-> CharAt(bytes, Nth(starts, k))]]

\* bytes.decode("utf-8-sig"): as utf-8, without a leading U+FEFF
DecodeUtf8Sig(bytes) ==
    LET r == DecodeUtf8(bytes, "strict") IN
    IF r.ok /\ r.text # <<>> /\ r.text[1] = "U+FEFF"
    THEN [ok |-> TRUE, text |-> Tail(r.text)]
    ELSE r

Latin1Char(b) ==
    IF b = B_EF THEN "U+00EF"
    ELSE IF b = B_BB THEN "U+00BB"
    ELSE IF b = B_BF THEN "U+00BF"
    ELSE IF b = B_FF THEN "U+00FF"
    ELSE b

\* bytes.decode("latin-1"): every byte is a character
DecodeLatin1(bytes) == [ok |-> TRUE, text |-> [i \in 1..Len(bytes) |-> Latin1Char(bytes[i])]]

Decode(bytes, encoding) ==
    IF encoding = "utf-8" THEN DecodeUtf8(bytes, "strict")
    ELSE IF encoding = "utf-8-sig" THEN DecodeUtf8Sig(bytes)
    ELSE DecodeLatin1(bytes)

\* the encodings action_convert tries in turn; latin-1 decodes every byte
\* string, so cp1256 and iso-8859-6 after it are never tried
ConvertEncodings == <<"utf-8", "utf-8-sig", "latin-1">>

\* the for/else loop of action_convert
RECURSIVE DecodeFirst(_, _)
DecodeFirst(bytes, encodings) ==
    IF encodings = <<>> THEN [ok |-> FALSE, text |-> <<>>]
    ELSE IF Decode(bytes, encodings[1]).ok THEN Decode(bytes, encodings[1])
    ELSE DecodeFirst(bytes, Tail(encodings))

\* raw[3:] when raw starts with the byte order mark
StripBom(bytes) == IF StartsWith(bytes, UTF8_BOM) THEN From(bytes, 3) ELSE bytes

\* Path.read_text(encoding="utf-8", errors="replace")
ReadTextReplace(bytes) == DecodeUtf8(bytes, "replace").text

\* str.rstrip()
Rstrip(s) == SubSeq(s, 1, Len(s) - TrailingSpaces(s))

\* action_convert: one blank line kept of each run of blank lines
RECURSIVE CollapseBlank(_, _)
CollapseBlank(lines, prev_blank) ==
    IF lines = <<>> THEN <<>>
    ELSE IF Strip(lines[1]) = <<>>
    THEN (IF prev_blank THEN <<>> ELSE <<<<>>>>) \o CollapseBlank(Tail(lines), TRUE)
    ELSE <<lines[1]>> \o CollapseBlank(Tail(lines), FALSE)

\* action_convert: the blank lines at the end popped
RECURSIVE PopBlank(_)
PopBlank(lines) ==
    IF lines # <<>> /\ lines[Len(lines)] = <<>>
    THEN PopBlank(SubSeq(lines, 1, Len(lines) - 1))
    ELSE lines

\* action_convert: the text written for the decoded content
Normalize(content) ==
    LET lines == SplitLines(content)
        stripped == [i \in 1..Len(lines) |-> Rstrip(lines[i])]
    IN Join(Append(PopBlank(CollapseBlank(stripped, FALSE)), <<>>), <<NL>>)

\* action_convert(po_path, output_path): [ok, output]
action_convert(bytes) ==
    LET decoded == DecodeFirst(StripBom(bytes), ConvertEncodings) IN
    IF decoded.ok THEN [ok |-> TRUE, output |-> Normalize(decoded.text)]
    ELSE [ok |-> FALSE, output |-> <<>>]

IsError(issue) == issue.severity = "error"
IsWarning(issue) == issue.severity = "warning"

\* generate_report's result line
ReportStatus(errors_parse, found) ==
    IF errors_parse # <<>> \/ SelectSeq(found, IsError) # <<>> THEN "FAILED"
    ELSE IF SelectSeq(found, IsWarning) # <<>> THEN "PASSED WITH WARNINGS"
    ELSE "PASSED"

\* the report, kept as the lists it prints and its result line
generate_report(errors_parse, found) ==
    [parse_errors |-> errors_parse, issues |-> found,
     status |-> ReportStatus(errors_parse, found)]

---------------------------------------------------------------------------
(* The entry points on files of bytes *)

MaxBlocks == 2

\* "I" with a translation that holds a byte no UTF-8 text contains
InvalidByteBlock ==
    << MSGID_ \o Quoted(<<"I">>),
       MSGSTR_ \o Quoted(<<"J", B_FF>>) >>

ByteBlocks == {HeaderBlock, BaseSaveBlock, BaseOldCancelBlock, InvalidByteBlock}

\* the files, each also with a byte order mark in front
ByteFiles ==
    {bom \o FileText(bs) : bom \in {<<>>, UTF8_BOM}, bs \in StringsUpTo(ByteBlocks, MaxBlocks)}

\* the --new file of a merge
NewBytes == FileText(<<NewSaveBlock>>)

InitBytes ==
    /\ pc = "bytes"
    /\ IdleEscape
    /\ IdleMerge
    /\ IdleValidate
    /\ IdleExtract
    /\ raw_bytes \in ByteFiles
    /\ entry_point = "none"
    /\ outcome = "none"
    /\ file_written = <<>>

\* main() of i18n_validator.py with --output
ValidateBytes ==
    /\ pc = "bytes"
    /\ entry_point' = "validate"
    /\ pc' = "done"
    /\ \E d \in {DecodeUtf8(StripBom(raw_bytes), "strict")} :
         IF ~d.ok
         THEN /\ outcome' = "exit 1"
              /\ file_written' = <<>>
              /\ UNCHANGED <<po_content, parser, parsed_entries, parse_errors, issues>>
         ELSE \E r \in {ValidatorPoParser_parse(d.text)} :
                /\ po_content' = d.text
                /\ parser' = "validator"
                /\ parsed_entries' = r.entries
                /\ parse_errors' = r.parse_errors
                /\ IF r.raised
                   THEN /\ outcome' = "raised"
                        /\ file_written' = <<>>
                        /\ UNCHANGED issues
                   ELSE \E found \in {validate_all(r.entries, <<>>, FALSE)} :
                          /\ issues' = found
                          /\ file_written' = <<generate_report(r.parse_errors, found)>>
                          /\ outcome' = IF ReportStatus(r.parse_errors, found) = "FAILED"
                                        THEN "exit 1" ELSE "exit 0"
    /\ UNCHANGED <<EscapeVars, MergeVars, lang, strict, raw_bytes, ExtractVars>>

\* action_merge(base_path, new_path, output_path), base_path being the file
MergeBytes ==
    /\ pc = "bytes"
    /\ entry_point' = "merge"
    /\ pc' = "done"
    /\ base_content' = ReadTextReplace(raw_bytes)
    /\ new_content' = ReadTextReplace(NewBytes)
    /\ \E now \in Clock :
       \E r \in {action_merge(ReadTextReplace(raw_bytes), ReadTextReplace(NewBytes), now)} :
         /\ base_entries' = r.base_entries
         /\ new_entries' = r.new_entries
         /\ merged' = r.merged
         /\ merged_ref' = r.refs
         /\ added' = r.added
         /\ preserved' = r.preserved
         /\ marked_obsolete' = r.marked_obsolete
         /\ output_content' = r.output
         /\ outcome' = IF r.raised THEN "raised" ELSE "exit 0"
         /\ file_written' = IF r.raised THEN <<>> ELSE <<r.output>>
    /\ UNCHANGED <<EscapeVars, entries, clean_entries, removed, clean_content,
                   ValidateVars, raw_bytes, ExtractVars>>

\* action_clean(po_path, output_path)
CleanBytes ==
    /\ pc = "bytes"
    /\ entry_point' = "clean"
    /\ pc' = "done"
    /\ po_content' = ReadTextReplace(raw_bytes)
    /\ \E r \in {action_clean(ReadTextReplace(raw_bytes))} :
         /\ entries' = r.entries
         /\ clean_entries' = r.clean_entries
         /\ removed' = r.removed
         /\ clean_content' = IF r.raised THEN clean_content ELSE r.output
         /\ outcome' = IF r.raised THEN "raised" ELSE "exit 0"
         /\ file_written' = IF r.raised THEN <<>> ELSE <<r.output>>
    /\ UNCHANGED <<EscapeVars, base_content, new_content, base_entries, new_entries,
                   merged, merged_ref, added, preserved, marked_obsolete,
                   output_content, parser, parsed_entries, parse_errors, lang, strict,
                   issues, raw_bytes, ExtractVars>>

\* action_stats(po_path): it prints and writes no file
StatsBytes ==
    /\ pc = "bytes"
    /\ entry_point' = "stats"
    /\ pc' = "done"
    /\ po_content' = ReadTextReplace(raw_bytes)
    /\ \E r \in {PoParser_parse(ReadTextReplace(raw_bytes))} :
         /\ entries' = r.entries
         /\ outcome' = IF r.raised THEN "raised" ELSE "exit 0"
    /\ file_written' = <<>>
    /\ UNCHANGED <<EscapeVars, base_content, new_content, base_entries, new_entries,
                   merged, merged_ref, added, preserved, marked_obsolete,
                   output_content, clean_entries, removed, clean_content, parser,
                   parsed_entries, parse_errors, lang, strict, issues, raw_bytes,
                   ExtractVars>>

\* action_convert(po_path, output_path)
ConvertBytes ==
    /\ pc = "bytes"
    /\ entry_point' = "convert"
    /\ pc' = "done"
    /\ \E r \in {action_convert(raw_bytes)} :
         /\ outcome' = IF r.ok THEN "exit 0" ELSE "exit 1"
         /\ file_written' = IF r.ok THEN <<r.output>> ELSE <<>>
    /\ UNCHANGED <<EscapeVars, MergeVars, ValidateVars, raw_bytes, ExtractVars>>

NextBytes == ValidateBytes \/ MergeBytes \/ CleanBytes \/ StatsBytes \/ ConvertBytes

SpecBytes == InitBytes /\ [][NextBytes]_vars

---------------------------------------------------------------------------
(* The extractor (i18n_extractor.py): PoFileGenerator and main() *)

ARABIC_PLURAL ==
    <<"n", "p", "l", "u", "r", "a", "l", "s", "=", "6", ";", SP, "p", "l", "u", "r", "a",
      "l", "=", "n", "=", "=", "0", SP, "?", SP, "0", SP, ":", SP, "n", "=", "=", "1",
      SP, "?", SP, "1", SP, ":", SP, "n", "=", "=", "2", SP, "?", SP, "2", SP, ":", SP,
      "n", "%", "1", "0", "0", ">", "=", "3", SP, "&", "&", SP, "n", "%", "1", "0", "0",
      "<", "=", "1", "0", SP, "?", SP, "3", SP, ":", SP, "n", "%", "1", "0", "0", ">",
      "=", "1", "1", SP, "&", "&", SP, "n", "%", "1", "0", "0", "<", "=", "9", "9", SP,
      "?", SP, "4", SP, ":", SP, "5", ";">>

GREATER_ONE_PLURAL == <<"n", "p", "l", "u", "r", "a", "l", "s", "=", "2", ";", SP, "p",
                        "l", "u", "r", "a", "l", "=", "(", "n", SP, ">", SP, "1", ")", ";">>

NOT_ONE_PLURAL == <<"n", "p", "l", "u", "r", "a", "l", "s", "=", "2", ";", SP, "p", "l",
                    "u", "r", "a", "l", "=", "(", "n", SP, "!", "=", SP, "1", ")", ";">>

RUSSIAN_PLURAL ==
    <<"n", "p", "l", "u", "r", "a", "l", "s", "=", "3", ";", SP, "p", "l", "u", "r", "a",
      "l", "=", "(", "n", "%", "1", "0", "=", "=", "1", SP, "&", "&", SP, "n", "%", "1",
      "0", "0", "!", "=", "1", "1", SP, "?", SP, "0", SP, ":", SP, "n", "%", "1", "0",
      ">", "=", "2", SP, "&", "&", SP, "n", "%", "1", "0", "<", "=", "4", SP, "&", "&",
      SP, "(", "n", "%", "1", "0", "0", "<", "1", "0", SP, "|", "|", SP, "n", "%", "1",
      "0", "0", ">", "=", "2", "0", ")", SP, "?", SP, "1", SP, ":", SP, "2", ")", ";">>

\* PoFileGenerator.PLURAL_FORMS, a dict: its items in order
PoFileGenerator_PLURAL_FORMS ==
    << [key |-> <<"a", "r">>, val |-> ARABIC_PLURAL],
       [key |-> <<"a", "r", "_", "S", "A">>, val |-> ARABIC_PLURAL],
       [key |-> <<"f", "r">>, val |-> GREATER_ONE_PLURAL],
       [key |-> <<"f", "r", "_", "F", "R">>, val |-> GREATER_ONE_PLURAL],
       [key |-> <<"t", "r">>, val |-> NOT_ONE_PLURAL],
       [key |-> <<"e", "n">>, val |-> NOT_ONE_PLURAL],
       [key |-> <<"e", "n", "_", "U", "S">>, val |-> NOT_ONE_PLURAL],
       [key |-> <<"e", "n", "_", "G", "B">>, val |-> NOT_ONE_PLURAL],
       [key |-> <<"d", "e">>, val |-> NOT_ONE_PLURAL],
       [key |-> <<"e", "s">>, val |-> NOT_ONE_PLURAL],
       [key |-> <<"r", "u">>, val |-> RUSSIAN_PLURAL] >>

DEFAULT_PLURAL_FORMS == NOT_ONE_PLURAL

\* PLURAL_FORMS.get(lang, DEFAULT_PLURAL_FORMS)
PluralFormsGet(lang_code) ==
    LET hits == {i \in 1..Len(PoFileGenerator_PLURAL_FORMS) :
                    PoFileGenerator_PLURAL_FORMS[i].key = lang_code}
    IN IF hits = {} THEN DEFAULT_PLURAL_FORMS
       ELSE PoFileGenerator_PLURAL_FORMS[CHOOSE i \in hits : TRUE].val

\* TranslatableString(source, location, line, context, flags, comment)
TranslatableString(source, location, line, flags, comment) ==
    [source |-> source, location |-> location, line |-> line, context |-> <<>>,
     flags |-> flags, comment |-> comment]

\* str(n) of a number n >= 0
RECURSIVE Decimal(_)
Decimal(n) ==
    IF n < 10 THEN <<DigitChars[n + 1]>>
    ELSE Decimal(n \div 10) \o <<DigitChars[(n % 10) + 1]>>

\* PoFileGenerator._escape_po_string
escape_po_string(s) ==
    Replace(Replace(Replace(Replace(Replace(s,
        <<BS>>, <<BS, BS>>),
        <<QT>>, <<BS, QT>>),
        <<NL>>, <<BS, "n">>),
        <<CR>>, <<BS, "r">>),
        <<TAB>>, <<BS, "t">>)

\* PoFileGenerator._format_msgid
format_msgid(s) ==
    LET escaped == escape_po_string(s)
        lines == Split(escaped, <<BS, "n">>)
    IN IF Contains(escaped, <<BS, "n">>)
       THEN MSGID_ \o <<QT, QT, NL>>
            \o Join([i \in 1..Len(lines) |->
                       <<QT>> \o lines[i]
                       \o (IF i < Len(lines) THEN <<BS, "n">> ELSE <<>>)
                       \o <<QT, NL>>], <<>>)
       ELSE MSGID_ \o <<QT>> \o escaped \o <<QT, NL>>

\* the lines generate_pot and generate_po append for one string
StringLines(s) ==
    (IF s.comment # <<>> THEN <<<<"#", ".", SP>> \o s.comment>> ELSE <<>>)
    \o << <<"#", ":", SP>> \o s.location \o <<":">> \o Decimal(s.line) >>
    \o (IF s.flags # <<>> THEN << <<"#", ",", SP>> \o Join(s.flags, <<",", SP>>) >> ELSE <<>>)
    \o << Rstrip(format_msgid(s.source)), MSGSTR_ \o <<QT, QT>>, <<>> >>

RECURSIVE AllStringLines(_)
AllStringLines(strings) ==
    IF strings = <<>> THEN <<>>
    ELSE StringLines(strings[1]) \o AllStringLines(Tail(strings))

\* "..." with a closing \n inside the quotes: a line of a header msgstr
HeaderLine(text) == <<QT>> \o text \o <<BS, "n", QT>>

COPYRIGHT_ == <<"C", "o", "p", "y", "r", "i", "g", "h", "t", SP, "(", "C", ")", SP>>

LICENSE_LINE ==
    <<"T", "h", "i", "s", SP, "f", "i", "l", "e", SP, "i", "s", SP, "d", "i", "s", "t",
      "r", "i", "b", "u", "t", "e", "d", SP, "u", "n", "d", "e", "r", SP, "t", "h", "e",
      SP, "M", "I", "T", SP, "l", "i", "c", "e", "n", "s", "e", ".">>

PROJECT_ID_ ==
    <<"P", "r", "o", "j", "e", "c", "t", "-", "I", "d", "-", "V", "e", "r", "s", "i",
      "o", "n", ":", SP, "O", "d", "o", "o", SP, "M", "o", "d", "u", "l", "e", SP>>

REPORT_BUGS ==
    <<"R", "e", "p", "o", "r", "t", "-", "M", "s", "g", "i", "d", "-", "B", "u", "g",
      "s", "-", "T", "o", ":", SP, "c", "o", "n", "t", "a", "c", "t", "@", "t", "a", "q",
      "a", "t", "-", "t", "e", "c", "h", "n", "o", ".", "c", "o", "m">>

POT_CREATION_ == <<"P", "O", "T", "-", "C", "r", "e", "a", "t", "i", "o", "n", "-", "D",
                   "a", "t", "e", ":", SP>>

PO_REVISION_ == <<"P", "O", "-", "R", "e", "v", "i", "s", "i", "o", "n", "-", "D", "a",
                  "t", "e", ":", SP>>

LAST_TRANSLATOR ==
    <<"L", "a", "s", "t", "-", "T", "r", "a", "n", "s", "l", "a", "t", "o", "r", ":", SP,
      "F", "U", "L", "L", SP, "N", "A", "M", "E", SP, "<", "E", "M", "A", "I", "L", "@",
      "A", "D", "D", "R", "E", "S", "S", ">">>

LANGUAGE_TEAM_ == <<"L", "a", "n", "g", "u", "a", "g", "e", "-", "T", "e", "a", "m", ":",
                    SP>>

LANGUAGE_ == <<"L", "a", "n", "g", "u", "a", "g", "e", ":", SP>>

MIME_VERSION_1 == <<"M", "I", "M", "E", "-", "V", "e", "r", "s", "i", "o", "n", ":", SP,
                    "1", ".", "0">>

CONTENT_TYPE_UTF8 ==
    <<"C", "o", "n", "t", "e", "n", "t", "-", "T", "y", "p", "e", ":", SP, "t", "e", "x",
      "t", "/", "p", "l", "a", "i", "n", ";", SP, "c", "h", "a", "r", "s", "e", "t", "=",
      "U", "T", "F", "-", "8">>

CONTENT_TRANSFER_8BIT ==
    <<"C", "o", "n", "t", "e", "n", "t", "-", "T", "r", "a", "n", "s", "f", "e", "r",
      "-", "E", "n", "c", "o", "d", "i", "n", "g", ":", SP, "8", "b", "i", "t">>

PLURAL_FORMS_ == <<"P", "l", "u", "r", "a", "l", "-", "F", "o", "r", "m", "s", ":", SP>>

\* str(year) of the four-digit years of the clock
Year(t) == Digits2(t.year \div 100) \o Digits2(t.year % 100)

\* PoFileGenerator(module_name, strings).generate_pot(), the clock reading t
generate_pot(module_name, strings, t) ==
    Join(<< <<"#", SP, "T", "r", "a", "n", "s", "l", "a", "t", "i", "o", "n", SP, "t",
              "e", "m", "p", "l", "a", "t", "e", SP, "f", "o", "r", SP>> \o module_name,
            <<"#", SP>> \o COPYRIGHT_ \o Year(t) \o <<SP, "T", "a", "q", "a", "T", "e", "c", "h", "n", "o">>,
            <<"#", SP>> \o LICENSE_LINE,
            <<"#">>,
            MSGID_ \o <<QT, QT>>,
            MSGSTR_ \o <<QT, QT>>,
            HeaderLine(PROJECT_ID_ \o module_name),
            HeaderLine(REPORT_BUGS),
            HeaderLine(POT_CREATION_ \o Strftime(t)),
            HeaderLine(PO_REVISION_ \o <<"Y", "E", "A", "R", "-", "M", "O", "-", "D", "A", SP, "H", "O", ":", "M",
              "I", "+", "Z", "O", "N", "E">>),
            HeaderLine(LAST_TRANSLATOR),
            HeaderLine(LANGUAGE_TEAM_ \o <<"L", "A", "N", "G", "U", "A", "G", "E", SP, "<", "L", "L", "@", "l", "i",
              ".", "o", "r", "g", ">">>),
            HeaderLine(LANGUAGE_),
            HeaderLine(MIME_VERSION_1),
            HeaderLine(CONTENT_TYPE_UTF8),
            HeaderLine(CONTENT_TRANSFER_8BIT),
            <<>> >>
         \o AllStringLines(strings), <<NL>>)

\* PoFileGenerator(module_name, strings).generate_po(lang), the clock reading t
generate_po(module_name, strings, lang_code, t) ==
    LET plural_forms == PluralFormsGet(lang_code)
        lang_display == Replace(lang_code, <<"_">>, <<SP>>)
    IN Join(<< <<"#", SP>> \o lang_display \o <<SP, "t", "r", "a", "n", "s", "l", "a", "t", "i", "o", "n", SP, "o", "f",
                 SP>> \o module_name,
               <<"#", SP>> \o COPYRIGHT_ \o Year(t) \o <<SP, "T", "a", "q", "a", "T", "e", "c", "h", "n", "o">>,
               <<"#", SP>> \o LICENSE_LINE,
               <<"#", SP, "T", "r", "a", "n", "s", "l", "a", "t", "o", "r", ":", SP, "F",
                 "U", "L", "L", SP, "N", "A", "M", "E", SP, "<", "E", "M", "A", "I", "L",
                 "@", "A", "D", "D", "R", "E", "S", "S", ">", ",", SP, "Y", "E", "A", "R">>,
               <<"#">>,
               MSGID_ \o <<QT, QT>>,
               MSGSTR_ \o <<QT, QT>>,
               HeaderLine(PROJECT_ID_ \o module_name),
               HeaderLine(REPORT_BUGS),
               HeaderLine(POT_CREATION_ \o Strftime(t)),
               HeaderLine(PO_REVISION_ \o Strftime(t)),
               HeaderLine(LAST_TRANSLATOR),
               HeaderLine(LANGUAGE_TEAM_ \o lang_display),
               HeaderLine(LANGUAGE_ \o lang_code),
               HeaderLine(MIME_VERSION_1),
               HeaderLine(CONTENT_TYPE_UTF8),
               HeaderLine(CONTENT_TRANSFER_8BIT),
               HeaderLine(PLURAL_FORMS_ \o plural_forms),
               <<>> >>
            \o AllStringLines(strings), <<NL>>)

---------------------------------------------------------------------------
(* Runs of the extractor on one module and output directory *)

MaxRuns == 3

\* scanner.module_name
ModuleName == <<"m", "y">>

SaveString == TranslatableString(<<"S", "a", "v", "e">>, <<"m", "o", "d", "e", "l", "s", "/", "a", ".", "p", "y">>, 3, <<>>, <<>>)

\* a source of two lines, with a comment and a flag
TwoLineString ==
    TranslatableString(<<"a", NL, "b", QT>>, <<"v", "i", "e", "w", "s", "/", "v", ".", "x", "m", "l">>, 12, <<PYTHON_FORMAT>>,
                       <<"n", "o", "t", "e">>)

\* what the scan of the module finds; nothing, in a module without sources
ModuleScans == {<<>>, <<SaveString>>, <<SaveString, TwoLineString>>}

\* the --lang argument
ExtractLangs == {<<"a", "r">>, <<"f", "r", "_", "F", "R">>, <<"n", "l">>}

\* <lang>.po as the translators left it before the first run
TranslatedFiles == {FileText(<<BaseSaveBlock>>), FileText(<<HeaderBlock, BaseSaveBlock>>)}

InitExtract ==
    /\ pc = "extract"
    /\ IdleEscape
    /\ IdleMerge
    /\ IdleEncoding
    /\ po_content = <<>>
    /\ parser = "none"
    /\ parsed_entries = <<>>
    /\ parse_errors = <<>>
    /\ lang \in ExtractLangs
    /\ strict = FALSE
    /\ issues = <<>>
    /\ module_strings \in ModuleScans
    /\ po_file \in {<<>>} \cup {<<c>> : c \in TranslatedFiles}
    /\ original_po = po_file
    /\ bak_file = <<>>
    /\ pot_file = <<>>
    /\ runs = 0

\* main() of i18n_extractor.py on the module, with or without --no-pot
ExtractorRun ==
    /\ pc = "extract"
    /\ runs < MaxRuns
    /\ runs' = runs + 1
    /\ \E now \in Clock, no_pot \in BOOLEAN :
         IF module_strings = <<>>
         THEN UNCHANGED <<po_file, bak_file, pot_file>>
         ELSE /\ pot_file' = IF no_pot THEN pot_file
                             ELSE <<generate_pot(ModuleName, module_strings, now)>>
              /\ bak_file' = IF po_file # <<>> THEN po_file ELSE bak_file
              /\ po_file' = <<generate_po(ModuleName, module_strings, lang, now)>>
    /\ UNCHANGED <<pc, EscapeVars, MergeVars, ValidateVars, EncodingVars, original_po,
                   module_strings>>

NextExtract == ExtractorRun

SpecExtract == InitExtract /\ [][NextExtract]_vars

---------------------------------------------------------------------------
(* Claims *)

\* the fields the round trip is about
EntryTuple(e) == <<e.msgid, e.msgstr, e.flags, e.locations, e.comments, e.is_obsolete>>

\* the base entries as parse() returned them, before action_merge changed any
BaseAsParsed == PoParser_parse(base_content).entries

\* the keys of the lookup map of a list: the msgids of its non-header entries
IndexKeys(list) == {list[i].msgid : i \in {j \in 1..Len(list) : ~list[j].is_header}}

\* the msgids of the entries that are neither header nor obsolete
ActiveKeys(list) ==
    {list[i].msgid : i \in {j \in 1..Len(list) : ~list[j].is_header /\ ~list[j].is_obsolete}}

\* the non-empty source texts that occur in a list
SourceTexts(list) == {list[i].msgid : i \in 1..Len(list)} \ {<<>>}

\* the places of a source text in a list
PlacesOf(list, s) == {i \in 1..Len(list) : list[i].msgid = s}

\* the places of the non-header entries for s in a list
EntriesFor(list, s) == {i \in 1..Len(list) : ~list[i].is_header /\ list[i].msgid = s}

\* the keys of a list in the order of their first occurrence
RECURSIVE FirstKeysFrom(_, _, _)
FirstKeysFrom(list, i, seen) ==
    IF i > Len(list) THEN <<>>
    ELSE IF ~list[i].is_header /\ list[i].msgid \notin seen
         THEN <<list[i].msgid>> \o FirstKeysFrom(list, i + 1, seen \cup {list[i].msgid})
         ELSE FirstKeysFrom(list, i + 1, seen)

FirstKeys(list) == FirstKeysFrom(list, 1, {})

\* C1: round trip: parsing the text serialize(c) wrote gives as many entries
\* as c has, in the same order, each with c's (msgid, msgstr, flags,
\* locations, comments, is_obsolete).  Here c is the merged list action_merge
\* serialized and `entries` is what action_clean parsed from that file.
C1_RoundTrip ==
    pc = "cleaned" =>
        /\ Len(entries) = Len(merged)
        /\ \A i \in 1..Len(merged) :
              i <= Len(entries) => EntryTuple(entries[i]) = EntryTuple(merged[i])

\* C2: escaping correctness: unescaping the quoted literal of escape(s) with
\* _parse_string returns exactly s, for every s over backslash, quote,
\* newline, tab, carriage return and letters.
C2_EscapeRoundTrip == pc = "unescaped" => str_out = str_in

\* C3: merge partition: every non-empty source text of incoming occurs exactly
\* once in the merged list; every source text only in base occurs exactly once
\* and is obsolete; the merged entries with a non-empty source text number
\* (distinct incoming) + (only in base) = preserved + added + obsoleted.
C3_MergePartition ==
    pc = "merged" =>
        /\ \A s \in SourceTexts(new_entries) : Cardinality(PlacesOf(merged, s)) = 1
        /\ \A s \in SourceTexts(base_entries) \ SourceTexts(new_entries) :
              /\ Cardinality(PlacesOf(merged, s)) = 1
              /\ \A i \in PlacesOf(merged, s) : merged[i].is_obsolete
        /\ Cardinality({i \in 1..Len(merged) : merged[i].msgid # <<>>})
              = Cardinality(SourceTexts(new_entries))
                + Cardinality(SourceTexts(base_entries) \ SourceTexts(new_entries))
        /\ Cardinality({i \in 1..Len(merged) : merged[i].msgid # <<>>})
              = preserved + added + marked_obsolete

\* what merging c with itself is claimed to give: nothing added, nothing
\* obsoleted, every non-header entry preserved, in c's order
SelfMergeKeepsAll ==
    /\ added = 0
    /\ marked_obsolete = 0
    /\ preserved = Len(SelectSeq(new_entries, NotHeader))
    /\ SelectSeq(merged, NotHeader) = SelectSeq(new_entries, NotHeader)

\* the non-header entries of a list have pairwise distinct source texts
DistinctKeys(list) ==
    \A i, j \in 1..Len(list) :
        (~list[i].is_header /\ ~list[j].is_header /\ list[i].msgid = list[j].msgid) => i = j

\* C4 as stated: for any catalog c, merging c with itself gives added = 0,
\* obsoleted = 0, preserved = the number of non-header entries of c, and the
\* merged non-header entries are c's.
C4_SelfMergeAny ==
    (pc = "merged" /\ base_content = new_content) => SelfMergeKeepsAll

\* C4 amended: for any catalog c whose non-header entries have pairwise
\* distinct source texts, merging c with itself gives added = 0, obsoleted =
\* 0, preserved = the number of non-header entries of c, and the merged
\* non-header entries are c's, in c's order.
C4_SelfMergeDistinct ==
    (pc = "merged" /\ base_content = new_content /\ DistinctKeys(new_entries))
        => SelfMergeKeepsAll

C4_Witness ==
    /\ pc = "merged"
    /\ base_content = new_content
    /\ DistinctKeys(new_entries)
    /\ preserved >= 1
    /\ \E i \in 1..Len(merged) : merged[i].is_header

\* the merged entries of incoming's source texts, against base as parsed
TranslationsKeptFrom(base) ==
        /\ \A s \in IndexKeys(new_entries) :
              /\ Cardinality(EntriesFor(merged, s)) = 1
              /\ \A m \in EntriesFor(merged, s) :
                    IF s \in IndexKeys(base)
                    THEN \E b \in EntriesFor(base, s) :
                            /\ merged[m].msgstr = base[b].msgstr
                            /\ merged[m].is_fuzzy = base[b].is_fuzzy
                            /\ merged[m].flags = base[b].flags
                            /\ merged[m].comments = base[b].comments
                    ELSE /\ merged[m].msgstr = <<>>
                         /\ ~merged[m].is_fuzzy
                         /\ ~InSeq(FUZZY, merged[m].flags)
        /\ preserved = Cardinality(IndexKeys(new_entries) \cap IndexKeys(base))
        /\ added = Cardinality(IndexKeys(new_entries) \ IndexKeys(base))

LocationsTakenGiven(base) ==
        \A s \in IndexKeys(new_entries) \cap IndexKeys(base) :
            \A m \in EntriesFor(merged, s) :
                \E n \in EntriesFor(new_entries, s) :
                    merged[m].locations = new_entries[n].locations

\* C6: for every source text in both base and incoming, the merged entry's
\* locations are the locations of an incoming entry for it, the empty list
\* included.
C6_LocationsFromIncoming ==
    pc = "merged" => LocationsTakenGiven(BaseAsParsed)

\* the merged entries of the source texts only base has
ObsoletedKeptFrom(base) ==
        /\ \A s \in IndexKeys(base) \ IndexKeys(new_entries) :
              /\ Cardinality(EntriesFor(merged, s)) = 1
              /\ \A m \in EntriesFor(merged, s) :
                    \E b \in EntriesFor(base, s) :
                        merged[m] = [base[b] EXCEPT
                                        !.is_obsolete = TRUE,
                                        !.comments = <<OBSOLETE_MARK>> \o @]
        /\ marked_obsolete = Cardinality(IndexKeys(base) \ IndexKeys(new_entries))

\* C7: for every source text of base's index that is not in incoming, the
\* merged list holds one entry for it: a base entry for it with is_obsolete
\* set, "#~ obsolete" put before its comments and everything else, the
\* translation included, unchanged; the obsoleted count is the number of
\* such source texts.
C7_ObsoletedKept ==
    pc = "merged" => ObsoletedKeptFrom(BaseAsParsed)

\* a merge that made a translated base entry obsolete
C7_Witness ==
    /\ pc = "merged"
    /\ marked_obsolete >= 1
    /\ \E i \in 1..Len(merged) :
          /\ merged[i].is_obsolete
          /\ merged[i].msgstr # <<>>
          /\ merged[i].comments[1] = OBSOLETE_MARK
          /\ Len(merged[i].comments) >= 2

\* the keys of base's index that incoming lacks, in base's order
OnlyInBase(base) ==
    LET Gone(s) == s \notin IndexKeys(new_entries) IN
    SelectSeq(FirstKeys(base), Gone)

\* header, then incoming's keys, then base's remaining keys
OrderedAfter(base) ==
        LET h == HeaderIndex(base)
            off == IF h # 0 THEN 1 ELSE 0
            inc == FirstKeys(new_entries)
        IN /\ Len(merged) = off + Len(inc) + Len(OnlyInBase(base))
           /\ h # 0 => /\ merged[1].is_header
                       /\ merged[1].msgid = base[h].msgid
                       /\ merged[1].line_start = base[h].line_start
           /\ \A i \in 1..Len(inc) :
                 off + i <= Len(merged) =>
                    /\ ~merged[off + i].is_header
                    /\ merged[off + i].msgid = inc[i]
           /\ \A i \in 1..Len(OnlyInBase(base)) :
                 off + Len(inc) + i <= Len(merged) =>
                    /\ ~merged[off + Len(inc) + i].is_header
                    /\ merged[off + Len(inc) + i].msgid = OnlyInBase(base)[i]
                    /\ merged[off + Len(inc) + i].is_obsolete
           /\ preserved + added = Len(inc)
           /\ marked_obsolete = Len(OnlyInBase(base))

FirstFor(list, s) == list[Min(EntriesFor(list, s))]

\* the merged entries against the first occurrences
FirstWinsIn(base) ==
        \A s \in IndexKeys(new_entries) :
            \A m \in EntriesFor(merged, s) :
                /\ s \in IndexKeys(base) =>
                      merged[m].msgstr = FirstFor(base, s).msgstr
                /\ FirstFor(new_entries, s).locations # <<>> =>
                      merged[m].locations = FirstFor(new_entries, s).locations

\* C9: first occurrence wins: the merged entry of a source text that base has
\* carries the translation of the first base entry for it, and (when that
\* list is not empty) the locations of the first incoming entry for it.
C9_FirstOccurrenceWins ==
    pc = "merged" => FirstWinsIn(BaseAsParsed)

\* the counters against the indexes of the active entries
ActiveCountsFor(base) ==
        /\ preserved = Cardinality(ActiveKeys(new_entries) \cap ActiveKeys(base))
        /\ marked_obsolete = Cardinality(ActiveKeys(base) \ ActiveKeys(new_entries))
        /\ added = Cardinality(ActiveKeys(new_entries) \ ActiveKeys(base))

\* C10: only non-header, non-obsolete entries are indexed: preserved counts
\* the source texts active in both files, obsoleted those active in base and
\* not in incoming, added those of incoming with no active base entry.
C10_ObsoleteNotIndexed ==
    pc = "merged" => ActiveCountsFor(BaseAsParsed)

\* the text with the value of every PO-Revision-Date line set to the stamp
WithRevisionDate(text, stamp) ==
    LET lines == Split(text, <<NL>>)
        Stamped(l) == IF StartsWith(l, REVISION_DATE)
                      THEN REVISION_DATE \o <<SP>> \o stamp ELSE l
    IN Join([k \in 1..Len(lines) |-> Stamped(lines[k])], <<NL>>)

\* the merged header against base's header as parsed
HeaderStampedFrom(base) ==
    LET h == HeaderIndex(base) IN
    (h # 0 /\ Contains(base[h].msgstr, REVISION_DATE)) =>
        /\ merged # <<>>
        /\ merged[1].is_header
        /\ \E now \in Clock :
              merged[1].msgstr = WithRevisionDate(base[h].msgstr, Strftime(now))

\* C11: when base's header translation has a PO-Revision-Date line, the merged
\* header's translation is base's with the value of that line replaced by the
\* merge-time timestamp YYYY-MM-DD HH:MM+0000, every other line unchanged.
C11_HeaderTimestamp ==
    pc = "merged" => HeaderStampedFrom(BaseAsParsed)

\* C12: no merged entry is an entry object of base or of incoming: each is a
\* new object, so a later change to an input entry cannot show in the merged
\* list.
C12_NoAliasing ==
    pc = "merged" =>
        \A i \in 1..Len(merged_ref) : merged_ref[i].obj \notin {"base", "new"}

\* C13: PoParser.parse of either script returns an entry list for every text:
\* it never ends by raising.
C13_ParserNeverRaises ==
    ~(pc = "raised" /\ parser \in {"converter", "validator"})

\* a literal that _parse_string does not accept
Malformed(raw) == ~(StartsWith(Strip(raw), <<QT>>) /\ EndsWith(Strip(raw), <<QT>>))

\* the numbers of the lines that are parse errors: `active` says a msgid or
\* msgstr directive came with no blank line since
RECURSIVE ErrorLinesFrom(_, _, _)
ErrorLinesFrom(lines, i, active) ==
    IF i > Len(lines) THEN <<>>
    ELSE LET line == Strip(lines[i]) IN
         IF line = <<>> THEN ErrorLinesFrom(lines, i + 1, FALSE)
         ELSE IF StartsWith(line, <<"#">>) THEN ErrorLinesFrom(lines, i + 1, active)
         ELSE IF StartsWith(line, MSGID_)
         THEN (IF Malformed(From(line, 6)) THEN <<i>> ELSE <<>>)
              \o ErrorLinesFrom(lines, i + 1, TRUE)
         ELSE IF StartsWith(line, MSGSTR_)
         THEN (IF Malformed(From(line, 7)) THEN <<i>> ELSE <<>>)
              \o ErrorLinesFrom(lines, i + 1, TRUE)
         ELSE IF StartsWith(line, <<QT>>) /\ active
         THEN (IF Malformed(line) THEN <<i>> ELSE <<>>)
              \o ErrorLinesFrom(lines, i + 1, active)
         ELSE <<i>> \o ErrorLinesFrom(lines, i + 1, active)

\* C14: after parse() of either script, the parser's error list has one entry
\* for every line that is no blank, comment, directive or continuation in
\* msgid/msgstr mode, and for every directive or continuation with a malformed
\* literal, each with the line's 1-based number, in line order.
C14_ParseErrorsCollected ==
    pc = "parsed" =>
        [k \in 1..Len(parse_errors) |-> parse_errors[k].line]
            = ErrorLinesFrom(SplitLines(po_content), 1, FALSE)

\* C15: every entry either parse() returns has is_header exactly when its
\* final msgid is the empty string.
C15_HeaderFlag ==
    pc = "parsed" =>
        \A i \in 1..Len(parsed_entries) :
            parsed_entries[i].is_header <=> parsed_entries[i].msgid = <<>>

\* the findings of one kind attached to a line
IssuesAt(kind, line) ==
    {k \in 1..Len(issues) : issues[k].message.kind = kind /\ issues[k].line = line}

\* C16: every entry with is_header and is_obsolete false and an empty msgstr
\* gets exactly one empty-translation finding at its line, of severity error
\* when strict and warning otherwise; an entry with a non-empty msgstr gets none.
C16_EmptyTranslation ==
    pc = "validated" =>
        \A i \in 1..Len(parsed_entries) :
            LET e == parsed_entries[i]
                found == IssuesAt("empty_translation", e.line_start)
            IN /\ (~e.is_header /\ ~e.is_obsolete /\ e.msgstr = <<>>) =>
                     /\ Cardinality(found) = 1
                     /\ \A k \in found :
                            issues[k].severity = IF strict THEN "error" ELSE "warning"
               /\ e.msgstr # <<>> => found = {}

\* a strict validation of a catalog with an untranslated and a translated
\* entry, the untranslated one reported as an error
C16_Witness ==
    /\ pc = "validated"
    /\ strict
    /\ \E i, j \in 1..Len(parsed_entries) :
          /\ ~parsed_entries[i].is_header
          /\ ~parsed_entries[i].is_obsolete
          /\ parsed_entries[i].msgstr = <<>>
          /\ \E k \in IssuesAt("empty_translation", parsed_entries[i].line_start) :
                issues[k].severity = "error"
          /\ ~parsed_entries[j].is_header
          /\ parsed_entries[j].msgstr # <<>>

\* the number of matches of %[sdifro%] that carry no name
UnnamedSpecifiers(s) == Len(SelectSeq(FindSpecs(s), IsPositional))

\* C17: every non-obsolete entry with the python-format flag and a non-empty
\* msgstr gets a positional-mismatch error iff the numbers of unnamed
\* specifiers of msgid and msgstr differ, at most one, reporting both numbers;
\* an entry without the flag gets none.
C17_FormatSpecifierParity ==
    pc = "validated" =>
        \A i \in 1..Len(parsed_entries) :
            LET e == parsed_entries[i]
                found == IssuesAt("format_specifier_mismatch", e.line_start)
                flagged == \E f \in 1..Len(e.flags) : e.flags[f] = PYTHON_FORMAT
            IN /\ (~e.is_obsolete /\ flagged /\ e.msgstr # <<>>) =>
                     /\ found # {} <=> UnnamedSpecifiers(e.msgid) # UnnamedSpecifiers(e.msgstr)
                     /\ Cardinality(found) <= 1
                     /\ \A k \in found :
                            issues[k].message.numbers
                                = <<UnnamedSpecifiers(e.msgid), UnnamedSpecifiers(e.msgstr)>>
               /\ ~flagged => found = {}

\* C18: every non-obsolete entry whose non-empty msgstr has U+202D or U+202E
\* gets exactly one BIDI-override error at its line, whatever lang and strict.
C18_OverrideCharacters ==
    pc = "validated" =>
        \A i \in 1..Len(parsed_entries) :
            LET e == parsed_entries[i] IN
            (~e.is_obsolete /\ \E p \in 1..Len(e.msgstr) : e.msgstr[p] \in {LRO, RLO}) =>
                /\ Cardinality(IssuesAt("bidi_override", e.line_start)) = 1
                /\ \A k \in IssuesAt("bidi_override", e.line_start) :
                       issues[k].severity = "error"

\* C19: under an Arabic language hint the info finding about direction control
\* characters names no override character, and an entry whose msgstr has no
\* control character other than U+202D and U+202E gets no such finding.
C19_InfoListsNoOverride ==
    (pc = "validated" /\ IsArabic(lang)) =>
        /\ \A k \in 1..Len(issues) :
              issues[k].message.kind = "direction_control_characters" =>
                 issues[k].message.names \cap {<<LRO>>, <<RLO>>} = {}
        /\ \A i \in 1..Len(parsed_entries) :
              LET e == parsed_entries[i] IN
              (\A p \in 1..Len(e.msgstr) : e.msgstr[p] \notin RTL_MARKS \ {LRO, RLO}) =>
                  IssuesAt("direction_control_characters", e.line_start) = {}

\* the place of the first entry without is_header that has the msgid of entry i
FirstWithMsgid(list, i) ==
    Min({j \in 1..i : ~list[j].is_header /\ list[j].msgid = list[i].msgid})

C21_ObsoleteNotInDuplicates ==
    pc = "validated" =>
        \A i \in 1..Len(parsed_entries) :
            LET e == parsed_entries[i]
                found == IssuesAt("duplicate_msgid", e.line_start)
            IN /\ e.is_obsolete => found = {}
               /\ (/\ ~e.is_header
                   /\ ~e.is_obsolete
                   /\ \A j \in 1..(i - 1) :
                         (~parsed_entries[j].is_header
                            /\ parsed_entries[j].msgid = e.msgid)
                         => parsed_entries[j].is_obsolete)
                  => found = {}

\* the header's translation declares a plural count of 6
DeclaresSixPlurals(msgstr) ==
    /\ Contains(msgstr, PLURAL_FORMS)
    /\ NpluralsStart(msgstr) # 0
    /\ ParseInt(NpluralsGroup(msgstr, NpluralsStart(msgstr))) = 6

PluralWarnings ==
    {k \in 1..Len(issues) :
        /\ issues[k].message.kind \in {"arabic_missing_plural_forms", "arabic_nplurals"}
        /\ issues[k].severity = "warning"}

\* C24: with a header present, under an Arabic hint there is exactly one
\* plural warning, on the header's line, iff the header's msgstr does not
\* declare nplurals=6 (no Plural-Forms, no nplurals=<number>, or another
\* number), and none otherwise; without an Arabic hint there is none.
C24_PluralCount ==
    (pc = "validated" /\ \E i \in 1..Len(parsed_entries) : parsed_entries[i].is_header) =>
        LET header == SelectSeq(parsed_entries, IsHeader)[1] IN
        IF IsArabic(lang)
        THEN /\ Cardinality(PluralWarnings)
                  = IF DeclaresSixPlurals(header.msgstr) THEN 0 ELSE 1
             /\ \A k \in PluralWarnings : issues[k].line = header.line_start
        ELSE PluralWarnings = {}

\* the scan state of the parser that read po_content, after its first k lines
ScanAfter(k) ==
    IF parser = "converter"
    THEN LET st == ParseLines(ParserStart, SubSeq(SplitLines(po_content), 1, k), 1)
         IN [current |-> st.current, mode |-> st.mode]
    ELSE LET st == ValidatorParseLines(ValidatorParserStart,
                                       SubSeq(SplitLines(po_content), 1, k), 1)
         IN [current |-> st.current, mode |-> st.mode]

\* C25: in both parsers, after every blank line there is no open entry and
\* the mode is None.
C25_BlankLineResets ==
    pc = "parsed" =>
        \A k \in 1..Len(SplitLines(po_content)) :
            Strip(SplitLines(po_content)[k]) = <<>> =>
                /\ ScanAfter(k).current = <<>>
                /\ ScanAfter(k).mode = "none"

\* the literals of the msgid directives of a text, in order, each as written
MsgidLiterals(content) ==
    LET lines == StripEach(SplitLines(content))
        directives == SelectSeq(lines, LAMBDA l : StartsWith(l, MSGID_))
    IN [i \in 1..Len(directives) |-> Strip(From(directives[i], 6))]

\* a quoted literal with something between its quotes
NonEmptyLiteral(lit) ==
    Len(lit) >= 3 /\ lit[1] = QT /\ lit[Len(lit)] = QT

\* C26: in both parsers, a text whose k msgid directives all carry non-empty
\* literals parses into k entries, the i-th with a msgid that starts with the
\* text of the i-th directive.
C26_MsgidStartsEntry ==
    (pc = "parsed" /\ \A i \in 1..Len(MsgidLiterals(po_content)) :
                          NonEmptyLiteral(MsgidLiterals(po_content)[i])) =>
        /\ Len(parsed_entries) = Len(MsgidLiterals(po_content))
        /\ \A i \in 1..Len(parsed_entries) :
              i <= Len(MsgidLiterals(po_content)) =>
                  StartsWith(parsed_entries[i].msgid,
                             SubSeq(MsgidLiterals(po_content)[i], 2,
                                    Len(MsgidLiterals(po_content)[i]) - 1))

\* C27: every entry parse() returned and every entry of a merged list has
\* is_fuzzy true iff its flags contain "fuzzy".
C27_FuzzyFlag ==
    /\ pc = "parsed" =>
          \A i \in 1..Len(parsed_entries) :
              parsed_entries[i].is_fuzzy <=> InSeq(FUZZY, parsed_entries[i].flags)
    /\ pc = "merged" =>
          \A i \in 1..Len(merged) : merged[i].is_fuzzy <=> InSeq(FUZZY, merged[i].flags)

\* C29: every entry action_merge marked obsolete is obsolete again in the
\* entries parsed from the file it wrote, and action_clean on that file
\* removes as many entries as were obsoleted and keeps the preserved and
\* added ones.
C29_ObsolescenceSurvives ==
    pc = "cleaned" =>
        /\ \A i \in 1..Len(merged) :
              merged[i].is_obsolete =>
                  \E j \in 1..Len(entries) :
                      entries[j].msgid = merged[i].msgid /\ entries[j].is_obsolete
        /\ removed = marked_obsolete
        /\ Len(SelectSeq(clean_entries, NotHeader)) = preserved + added

\* the number of blocks of a text: runs of non-blank lines
BlockCount(text) ==
    LET lines == StripEach(SplitLines(text)) IN
    Cardinality({k \in 1..Len(lines) :
                    lines[k] # <<>> /\ (k = 1 \/ lines[k - 1] = <<>>)})

\* C23: action_clean writes the entries of its input that are not obsolete,
\* in order and with their content, and returns the number of blocks of the
\* input file that are not in the file it wrote.
C23_CleanRemovesObsolete ==
    pc = "file_cleaned" =>
        LET kept == SelectSeq(entries, NotObsolete)
            written == PoParser_parse(clean_content).entries
        IN /\ Len(written) = Len(kept)
           /\ \A i \in 1..Len(kept) :
                 i <= Len(written) => EntryTuple(written[i]) = EntryTuple(kept[i])
           /\ removed = BlockCount(po_content) - BlockCount(clean_content)

RECURSIVE ConcatAll(_)
ConcatAll(seqs) == IF seqs = <<>> THEN <<>> ELSE seqs[1] \o ConcatAll(Tail(seqs))

\* the locations carried by each '#:' line of a text, line by line
LocationLines(text) ==
    SelectSeq(SplitLines(text), LAMBDA l : StartsWith(l, <<"#", ":">>))

\* C28: the '#:' lines written for entries with locations carry every
\* location once and in order, each line carries at least one location, and
\* a line with two or more locations has at most 76 characters.
C28_LocationPacking ==
    pc = "file_cleaned" =>
        LET lines == LocationLines(clean_content) IN
        /\ ConcatAll([k \in 1..Len(lines) |-> SplitWs(From(lines[k], 2))])
             = ConcatAll([i \in 1..Len(clean_entries) |-> clean_entries[i].locations])
        /\ \A k \in 1..Len(lines) :
              /\ Len(SplitWs(From(lines[k], 2))) >= 1
              /\ Len(SplitWs(From(lines[k], 2))) >= 2 => Len(lines[k]) <= 76

\* C22: when the bytes of the input file are not valid UTF-8 after the byte
\* order mark is stripped, every entry point ends in an error and writes no
\* output file.
C22_EncodingErrorIsFatal ==
    (pc = "done" /\ ~DecodeUtf8(StripBom(raw_bytes), "strict").ok) =>
        /\ outcome # "exit 0"
        /\ file_written = <<>>

\* C30: when <lang>.po existed before the first extractor run, then after any
\* number of runs its original content is still the content of <lang>.po or
\* of <lang>.po.bak.
C30_OriginalKept ==
    (pc = "extract" /\ original_po # <<>>) =>
        (po_file = original_po \/ bak_file = original_po)

=============================================================================
